---- MODULE Spec2Model ----
(***************************************************************************)
(* Turn dispatch of the teams-ai Application class: the route registry     *)
(* (addRoute), the turn-event hooks (turn / callEventHandlers), the        *)
(* per-turn sequence of run() and the typing timer                         *)
(* (startTypingTimer / onTimeout / stopTypingTimer).                       *)
(*                                                                         *)
(* Every await of run() is one step of the model, so that timer callbacks  *)
(* (macrotasks of the JavaScript event loop) interleave with a turn at     *)
(* exactly the places where the code can be suspended.                     *)
(***************************************************************************)
EXTENDS Integers, Sequences, FiniteSets, TLC

\* ------------------------------------------------------------------ bounds
NumTurns == 2
MaxRoutes == 2
MaxHooks == 2
MaxTyping == 2
MaxMessages == 1
NumIds == 2
MaxSteps == 2
MaxCommands == 3
\* The limit on routes, typing sends and messages of the specifications that
\* vary the number of turns or the options instead.
Few == 1

Turns == 1..NumTurns

\* ------------------------------------------------------- activities (input)
Message == "message"
Invoke == "invoke"
ConversationUpdate == "conversationUpdate"

\* The text of a message is a sequence of tokens; "@bot" is the mention of
\* the recipient.
Mention == "@bot"
Texts == {<< Mention >>, << Mention, "reset" >>, << "hi" >>}

Activities ==
    {[type |-> Message, text |-> x] : x \in Texts}
        \cup {[type |-> Invoke, text |-> << >>],
              [type |-> ConversationUpdate, text |-> << >>]}

\* TurnContext.removeRecipientMention: the text without the mention tokens.
RECURSIVE RemoveRecipientMention(_)
RemoveRecipientMention(text) ==
    IF text = << >> THEN << >>
    ELSE IF Head(text) = Mention THEN RemoveRecipientMention(Tail(text))
    ELSE << Head(text) >> \o RemoveRecipientMention(Tail(text))

\* String.toLocaleLowerCase on the strings of the model.
ToLocaleLowerCase(s) ==
    IF s = "conversationUpdate" THEN "conversationupdate" ELSE s

\* String.indexOf(k) >= 0 on a tokenised text.
Contains(text, k) == \E n \in 1..Len(text) : text[n] = k

\* ---------------------------------------------------------------- selectors
ActivitySelector(type) == [kind |-> "activity", arg |-> ToLocaleLowerCase(type)]
MessageSelector(keyword) == [kind |-> "message", arg |-> ToLocaleLowerCase(keyword)]

Selectors ==
    {ActivitySelector(Invoke), ActivitySelector(Message), MessageSelector("reset")}

\* A selector function written by the bot's author that throws.
ThrowingSelector == [kind |-> "custom", arg |-> "throws"]
Throws(sel) == sel.kind = "custom"

\* The value a selector resolves to for an activity.
Matches(sel, a) ==
    IF sel.kind = "activity"
    THEN ToLocaleLowerCase(a.type) = sel.arg
    ELSE a.type = Message /\ a.text # << >> /\ Contains(a.text, sel.arg)

\* ------------------------------------------------------------------ options
\* ApplicationOptions; adapter and botAppId say whether the option is set.
ApplicationOptions ==
    [ai : BOOLEAN, removeRecipientMention : BOOLEAN, startTypingTimer : BOOLEAN,
     longRunningMessages : BOOLEAN, adapter : BOOLEAN, botAppId : BOOLEAN]

\* A constructor without the validation of the long running configuration.
ConstructorNoValidation(o) == TRUE

\* new Application(options) returns: it throws if longRunningMessages is set
\* and the adapter or the botAppId is missing.
Constructor(o) ==
    ~(o.longRunningMessages /\ (~o.adapter \/ ~o.botAppId))

\* The argument of turn(): one event name, or an array of event names.
Name(e) == [isArray |-> FALSE, names |-> << e >>]
Array(names) == [isArray |-> TRUE, names |-> names]

\* -------------------------------------------------------------------- state
VARIABLES
    options,        \* ApplicationOptions
    _routes,        \* default lane: sequence of [selector, handler]
    _invokeRoutes,  \* invoke lane
    _beforeTurn,    \* sequence of [handler, events]: the hook and the event
                    \* names it was registered for
    _afterTurn,     \* the same, for the afterTurn hooks
    _typingTimer,   \* handle of the timer (the turn that armed it), 0 = undefined
    timeouts,       \* handles of the timeouts pending in the event loop
    storage,        \* the stored records of conversations and of users
    host,           \* the environment: the turns the host delivers, how many
                    \* at a time, and what the bot's code registers and sends
    api,            \* the last call the bot's code made outside run() (the
                    \* proactive API, a selector applied to an event) and its
                    \* outcome
    turn            \* per turn: position of run(), context, state, log

vars == << options, _routes, _invokeRoutes, _beforeTurn, _afterTurn,
           _typingTimer, timeouts, storage, host, api, turn >>

registry == << _routes, _invokeRoutes, _beforeTurn, _afterTurn >>

Ev(e, n) == [e |-> e, n |-> n]

\* The conversation and the user an activity belongs to.
Ids == 1 .. NumIds
Keys == [conversation : Ids, user : Ids]
DefaultKey == [conversation |-> 1, user |-> 1]

\* A turn state of empty scopes; 0 is the scope without properties.
EmptyState == [conversation |-> 0, user |-> 0, temp |-> 0]

\* The stored records before the first save.
EmptyStorage == [conversation |-> [id \in Ids |-> 0], user |-> [id \in Ids |-> 0]]

\* The AI plan loop before its first round: the step counter, the number
\* of Planner calls, the Plan in hand, where it came from, whether
\* reviewPlan returned it, the Commands executed of it, the last output,
\* the history and the condition reported.
IdleAI ==
    [round |-> 0, planner |-> 0, plan |-> << >>, source |-> "none",
     reviewed |-> FALSE, executed |-> << >>, output |-> "none",
     history |-> << >>, report |-> "none"]

IdleTurn ==
    [pc |-> "idle", i |-> 0, result |-> "pending",
     incoming |-> [type |-> "", text |-> << >>],
     activity |-> [type |-> "", text |-> << >>],
     key |-> DefaultKey, state |-> EmptyState, loaded |-> EmptyState,
     handler |-> 0, converted |-> FALSE, error |-> "",
     timerRunning |-> FALSE, sending |-> FALSE,
     typing |-> 0, typingIn |-> {}, msgs |-> 0, log |-> << >>,
     ai |-> IdleAI]

InFlight == {t \in Turns : turn[t].pc \notin {"idle", "done"}}

NoCall == [op |-> "none", outcome |-> "none", botAppId |-> "", sent |-> 0]

\* The application before its first activity.
Constructed ==
    /\ _routes = << >>
    /\ _invokeRoutes = << >>
    /\ _beforeTurn = << >>
    /\ _afterTurn = << >>
    /\ _typingTimer = 0
    /\ timeouts = {}
    /\ storage = EmptyStorage
    /\ api = NoCall
    /\ turn = [t \in Turns |-> IdleTurn]

\* Routes and hooks are registered before the first activity is processed.
Configuring == \A t \in Turns : turn[t].pc = "idle"

\* The part of run() a position belongs to.
Phase(pc) ==
    IF pc \in {"after", "save"} THEN "afterTurn"
    ELSE IF pc = "done" THEN "settled"
    ELSE "turn"

\* One turn of an application without adapter, begun with the typing timer
\* and without the long running conversion.
Init ==
    /\ options \in {o \in ApplicationOptions :
                        /\ Constructor(o)
                        /\ o.startTypingTimer /\ ~o.longRunningMessages
                        /\ ~o.adapter /\ ~o.botAppId}
    /\ host = [keys |-> {DefaultKey}, turns |-> 1, inFlight |-> 1,
               routes |-> MaxRoutes, hooks |-> MaxHooks,
               typing |-> MaxTyping, messages |-> MaxMessages,
               selectors |-> Selectors,
               events |-> {Name("beforeTurn"), Name("afterTurn")}]
    /\ Constructed

\* ------------------------------------------------------------- registration
\* Every registration passes a new closure: it is identified by its number.
NextRoute == Len(_routes) + Len(_invokeRoutes) + 1
NextHook == Len(_beforeTurn) + Len(_afterTurn) + 1

\* addRoute that inserts the route at the front of its lane.
AddRouteFront(selector, isInvokeRoute) ==
    /\ Configuring
    /\ Len(_routes) + Len(_invokeRoutes) < host.routes
    /\ IF isInvokeRoute
       THEN /\ _invokeRoutes' = << [selector |-> selector, handler |-> NextRoute] >> \o _invokeRoutes
            /\ UNCHANGED _routes
       ELSE /\ _routes' = << [selector |-> selector, handler |-> NextRoute] >> \o _routes
            /\ UNCHANGED _invokeRoutes
    /\ UNCHANGED << options, api, _beforeTurn, _afterTurn, _typingTimer, timeouts,
                    storage, host, turn >>

\* addRoute(selector, handler, isInvokeRoute)
AddRoute(selector, isInvokeRoute) ==
    /\ Configuring
    /\ Len(_routes) + Len(_invokeRoutes) < host.routes
    /\ IF isInvokeRoute
       THEN /\ _invokeRoutes' = Append(_invokeRoutes, [selector |-> selector, handler |-> NextRoute])
            /\ UNCHANGED _routes
       ELSE /\ _routes' = Append(_routes, [selector |-> selector, handler |-> NextRoute])
            /\ UNCHANGED _invokeRoutes
    /\ UNCHANGED << options, api, _beforeTurn, _afterTurn, _typingTimer, timeouts,
                    storage, host, turn >>

\* turn(event, handler): for each name e of the argument the handler is
\* pushed to the list chosen by  switch (event), whose value is the argument
\* itself, so that 'afterTurn' is matched by the single name only.
TurnEvent(event) ==
    /\ Configuring
    /\ Len(_beforeTurn) + Len(_afterTurn) + Len(event.names) <= host.hooks
    /\ LET pushed == [k \in 1..Len(event.names) |->
                         [handler |-> NextHook, events |-> event.names]]
       IN  IF ~event.isArray /\ event.names[1] = "afterTurn"
           THEN /\ _afterTurn' = _afterTurn \o pushed
                /\ UNCHANGED _beforeTurn
           ELSE /\ _beforeTurn' = _beforeTurn \o pushed
                /\ UNCHANGED _afterTurn
    /\ UNCHANGED << options, api, _routes, _invokeRoutes, _typingTimer, timeouts,
                    storage, host, turn >>

\* ------------------------------------------------- positions inside run()
Pos(pc, i) == [pc |-> pc, i |-> i, result |-> "pending"]
Return(r) == [pc |-> "done", i |-> 0, result |-> r]

\* An error leaves run(): the promise of run() is rejected.
Throw == Return("threw")

\* The AI fallback without the test of the text.
AIFallbackAnyText(a) ==
    IF options.ai /\ a.type = Message
    THEN Pos("ai", 0)
    ELSE Return("false")

\* if (this._ai && activity.type == Message && activity.text) ... return false
AIFallback(a) ==
    IF options.ai /\ a.type = Message /\ a.text # << >>
    THEN Pos("ai", 0)
    ELSE Return("false")

\* for (i ...; i < this._routes.length; ...)
ScanRoutes(a, i) ==
    IF i <= Len(_routes) THEN Pos("sel", i) ELSE AIFallback(a)

\* for (i ...; i < this._invokeRoutes.length; ...)
ScanInvokeRoutes(a, i) ==
    IF i <= Len(_invokeRoutes) THEN Pos("invokeSel", i) ELSE ScanRoutes(a, 1)

\* run() that searches the invoke lane for an activity of any type.
DispatchAnyType(a) == ScanInvokeRoutes(a, 1)

\* run() that never searches the invoke lane.
DispatchDefaultOnly(a) == ScanRoutes(a, 1)

\* run() that searches the invoke lane for message activities as well.
DispatchMessagesInInvokeLane(a) ==
    IF a.type \in {Invoke, Message} THEN ScanInvokeRoutes(a, 1) ELSE ScanRoutes(a, 1)

\* if (activity.type === Invoke) { invoke lane } ; default lane
Dispatch(a) ==
    IF a.type = Invoke THEN ScanInvokeRoutes(a, 1) ELSE ScanRoutes(a, 1)

\* callEventHandlers that starts at the last hook of the list.
FirstHandlerLast(handlers, pc, onTrue) ==
    IF Len(handlers) > 0 THEN Pos(pc, Len(handlers)) ELSE onTrue

\* callEventHandlers: the first hook of the list, or the continuation when
\* the list is empty.
FirstHandler(handlers, pc, onTrue) ==
    IF Len(handlers) > 0 THEN Pos(pc, 1) ELSE onTrue

\* callEventHandlers that drops the value the hook returned.
NextHandlerIgnoreResult(handlers, pc, i, continueExecution, onTrue, onFalse) ==
    IF i < Len(handlers) THEN Pos(pc, i + 1) ELSE onTrue

\* callEventHandlers that calls every hook of the list and returns what the
\* last one returned.
NextHandlerNoShortCircuit(handlers, pc, i, continueExecution, onTrue, onFalse) ==
    IF i < Len(handlers) THEN Pos(pc, i + 1)
    ELSE IF continueExecution THEN onTrue
    ELSE onFalse

\* callEventHandlers: hook i has returned continueExecution.
NextHandler(handlers, pc, i, continueExecution, onTrue, onFalse) ==
    IF ~continueExecution THEN onFalse
    ELSE IF i < Len(handlers) THEN Pos(pc, i + 1)
    ELSE onTrue

\* after route.handler / ai.chain: afterTurn hooks, then saveState
AfterHandler == FirstHandler(_afterTurn, "after", Pos("save", 0))

\* ------------------------------------------------------------ typing timer
\* stopTypingTimer: clearTimeout(this._typingTimer); this._typingTimer = undefined
StopTypingTimer ==
    /\ timeouts' = timeouts \ {_typingTimer}
    /\ _typingTimer' = 0

\* A step of run() that also stops the timer when the handler has completed.
StepStopAfterHandler(t, rec, nxt) ==
    /\ turn' = [turn EXCEPT ![t] =
                  [rec EXCEPT !.pc = nxt.pc, !.i = nxt.i, !.result = nxt.result,
                              !.log = IF nxt.pc = "ai"
                                      THEN Append(@, Ev("ai", 0)) ELSE @]]
    /\ IF nxt.pc \in {"after", "save", "done"}
       THEN StopTypingTimer
       ELSE UNCHANGED << _typingTimer, timeouts >>

\* A step of run() of turn t that leaves the turn record rec and continues
\* at nxt; the finally block runs with the return.
Step(t, rec, nxt) ==
    /\ turn' = [turn EXCEPT ![t] =
                  [rec EXCEPT !.pc = nxt.pc, !.i = nxt.i, !.result = nxt.result,
                              !.log = IF nxt.pc = "ai"
                                      THEN Append(@, Ev("ai", 0)) ELSE @]]
    /\ IF nxt.pc = "done"
       THEN StopTypingTimer
       ELSE UNCHANGED << _typingTimer, timeouts >>

Logged(t, e, n) == [turn[t] EXCEPT !.log = Append(@, Ev(e, n))]

\* ---------------------------------------------------------------- run()
\* The activity run() dispatches for an incoming activity.
Received(a) ==
    IF options.removeRecipientMention /\ a.type = Message
    THEN [a EXCEPT !.text = RemoveRecipientMention(a.text)]
    ELSE a

\* The handler of run() up to its first await, on a context whose activity
\* is a: startTypingTimer, removal of the mention, call of loadState.  The
\* startTypingTimer option is not read.
StartTurn(t, rec, a) ==
    LET arm == a.type = Message /\ _typingTimer = 0
    IN  /\ turn' = [turn EXCEPT ![t] =
                      [rec EXCEPT !.pc = "load", !.activity = Received(a),
                                  !.timerRunning = arm]]
        /\ _typingTimer' = IF arm THEN t ELSE _typingTimer
        /\ timeouts' = IF arm THEN timeouts \cup {t} ELSE timeouts

\* The activity of the context the adapter opens for a proactive turn.
ProactiveActivity == [type |-> "event", text |-> << >>]

\* for (const key in context.activity) ctx.activity[key] = context.activity[key]
CopyActivity(from, to) ==
    [key \in DOMAIN to |-> IF key \in DOMAIN from THEN from[key] ELSE to[key]]

\* run(turnContext): startLongRunningCall either calls the handler on the
\* incoming context, or, for a message of an application with
\* longRunningMessages, calls continueConversationAsync, which throws without
\* an adapter; nothing catches that rejection, so that run() never settles.
Run(t, a) ==
    /\ turn[t].pc = "idle"
    /\ \A u \in Turns : u < t => turn[u].pc # "idle"
    /\ t <= host.turns
    /\ Cardinality(InFlight) < host.inFlight
    /\ \E key \in host.keys :
       IF a.type = Message /\ options.longRunningMessages
       THEN /\ turn' = [turn EXCEPT ![t] =
                          [@ EXCEPT !.incoming = a, !.key = key,
                                    !.pc = IF options.adapter
                                           THEN "proactive" ELSE "unsettled",
                                    !.error = IF options.adapter
                                              THEN "" ELSE "adapter"]]
            /\ UNCHANGED << _typingTimer, timeouts >>
       ELSE StartTurn(t, [turn[t] EXCEPT !.incoming = a, !.key = key], a)
    /\ UNCHANGED << options, api, registry, storage, host >>

\* The adapter calls the logic of startLongRunningCall with the proactive
\* context: the activity is copied and the handler of run() starts.
ContinueConversation(t) ==
    /\ turn[t].pc = "proactive"
    /\ StartTurn(t, [turn[t] EXCEPT !.converted = TRUE],
                 CopyActivity(turn[t].incoming, ProactiveActivity))
    /\ UNCHANGED << options, api, registry, storage, host >>

\* adapter.continueConversationAsync rejects before it has called the logic:
\* the rejection is not caught, run() never settles.
AdapterFails(t) ==
    /\ turn[t].pc = "proactive"
    /\ turn' = [turn EXCEPT ![t].pc = "unsettled", ![t].error = "rejected"]
    /\ UNCHANGED << options, api, registry, _typingTimer, timeouts, storage, host >>

\* The turn state loadState builds for a key: the stored conversation and
\* user scopes, and a temp scope that is empty.
LoadedStateKeepTemp(key) ==
    [conversation |-> storage.conversation[key.conversation],
     user |-> storage.user[key.user],
     temp |-> storage.conversation[key.conversation]]

LoadedState(key) ==
    [conversation |-> storage.conversation[key.conversation],
     user |-> storage.user[key.user],
     temp |-> 0]

\* A saveState that keeps a user scope that is already stored.
SavedStorageMerging(key, state) ==
    [conversation |-> [storage.conversation EXCEPT ![key.conversation] = state.conversation],
     user |-> [storage.user EXCEPT ![key.user] = IF @ = 0 THEN state.user ELSE @]]

\* The stored records after saveState of a turn state under a key: the
\* conversation and user scopes are written, the temp scope is dropped.
SavedStorage(key, state) ==
    [conversation |-> [storage.conversation EXCEPT ![key.conversation] = state.conversation],
     user |-> [storage.user EXCEPT ![key.user] = state.user]]

\* The scopes after a handler that sets a property in each of them.
Written(t) == [conversation |-> t, user |-> t, temp |-> t]

\* await turnStateManager.loadState(storage, context)
LoadState(t) ==
    /\ turn[t].pc = "load"
    /\ Step(t, [Logged(t, "load", 0) EXCEPT !.state = LoadedState(turn[t].key),
                                            !.loaded = LoadedState(turn[t].key)],
            FirstHandler(_beforeTurn, "before", Dispatch(turn[t].activity)))
    /\ UNCHANGED << options, api, registry, storage, host >>

\* a beforeTurn hook returns
BeforeTurn(t, continueExecution) ==
    /\ turn[t].pc = "before"
    /\ Step(t, Logged(t, IF continueExecution THEN "before" ELSE "beforeFalse",
                       turn[t].i),
            NextHandler(_beforeTurn, "before", turn[t].i, continueExecution,
                        Dispatch(turn[t].activity), Pos("vetoSave", 0)))
    /\ UNCHANGED << options, api, registry, storage, host >>

\* return false after a beforeTurn hook returned false, without saveState
VetoSkipSave(t) ==
    /\ turn[t].pc = "vetoSave"
    /\ Step(t, turn[t], Return("false"))
    /\ UNCHANGED << options, api, registry, storage, host >>

\* saveState after a beforeTurn hook returned false; return false
VetoSave(t) ==
    /\ turn[t].pc = "vetoSave"
    /\ storage' = SavedStorage(turn[t].key, turn[t].state)
    /\ Step(t, Logged(t, "save", 0), Return("false"))
    /\ UNCHANGED << options, api, registry, host >>

\* Continuation after the selector of route i of a lane has resolved: the
\* handler of the route is called, or the scan goes on.
Selected(t, lane, matched, onNext) ==
    IF matched
    THEN Step(t, [turn[t] EXCEPT
                     !.log = @ \o << Ev(turn[t].pc, turn[t].i),
                                     Ev("handler", lane[turn[t].i].handler) >>,
                     !.handler = lane[turn[t].i].handler],
              Pos("handler", 0))
    ELSE Step(t, Logged(t, turn[t].pc, turn[t].i), onNext)

\* a selector of the invoke lane resolves
InvokeSelector(t) ==
    /\ turn[t].pc = "invokeSel"
    /\ IF Throws(_invokeRoutes[turn[t].i].selector)
       THEN Step(t, Logged(t, "selectorThrew", turn[t].i), Throw)
       ELSE Selected(t, _invokeRoutes,
                     Matches(_invokeRoutes[turn[t].i].selector, turn[t].activity),
                     ScanInvokeRoutes(turn[t].activity, turn[t].i + 1))
    /\ UNCHANGED << options, api, registry, storage, host >>

\* a selector of the default lane resolves
RouteSelector(t) ==
    /\ turn[t].pc = "sel"
    /\ IF Throws(_routes[turn[t].i].selector)
       THEN Step(t, Logged(t, "selectorThrew", turn[t].i), Throw)
       ELSE Selected(t, _routes,
                     Matches(_routes[turn[t].i].selector, turn[t].activity),
                     ScanRoutes(turn[t].activity, turn[t].i + 1))
    /\ UNCHANGED << options, api, registry, storage, host >>

\* context.sendActivity of a message by the running handler or AI chain; the
\* onSendActivities listener of the turn's timer stops the timer.
SendActivity(t) ==
    /\ turn[t].pc \in {"handler", "ai"}
    /\ turn[t].msgs < host.messages
    /\ turn' = [turn EXCEPT ![t] =
                  [Logged(t, "message", 0) EXCEPT !.msgs = @ + 1,
                                                  !.timerRunning = FALSE]]
    /\ IF turn[t].timerRunning
       THEN StopTypingTimer
       ELSE UNCHANGED << _typingTimer, timeouts >>
    /\ UNCHANGED << options, api, registry, storage, host >>

\* route.handler resolves and run() leaves the loop instead of returning.
HandlerDoneFallThrough(t) ==
    /\ turn[t].pc = "handler"
    /\ Step(t, [Logged(t, "handlerEnd", turn[t].handler)
                   EXCEPT !.state = Written(t)],
            AIFallback(turn[t].activity))
    /\ UNCHANGED << options, api, registry, storage, host >>

\* route.handler(context, state) resolves; the handler has written the
\* conversation scope.
HandlerDone(t) ==
    /\ turn[t].pc = "handler"
    /\ Step(t, [Logged(t, "handlerEnd", turn[t].handler)
                   EXCEPT !.state = Written(t)],
            AfterHandler)
    /\ UNCHANGED << options, api, registry, storage, host >>

\* route.handler(context, state) resolves after state.conversation.delete()
\* and writes to the user and temp scopes.
HandlerDoneDeleting(t) ==
    /\ turn[t].pc = "handler"
    /\ Step(t, [Logged(t, "handlerEnd", turn[t].handler)
                   EXCEPT !.state = [Written(t) EXCEPT !.conversation = 0]],
            AfterHandler)
    /\ UNCHANGED << options, api, registry, storage, host >>

\* route.handler throws and run() goes on as if the handler had returned.
HandlerThrowsSwallowed(t) ==
    /\ turn[t].pc = "handler"
    /\ Step(t, Logged(t, "handlerThrew", turn[t].handler), AfterHandler)
    /\ UNCHANGED << options, api, registry, storage, host >>

\* route.handler(context, state) throws: the error leaves run() through the
\* finally block.
HandlerThrows(t) ==
    /\ turn[t].pc = "handler"
    /\ Step(t, Logged(t, "handlerThrew", turn[t].handler), Throw)
    /\ UNCHANGED << options, api, registry, storage, host >>

\* this._ai.chain(context, state) resolves
AIDone(t) ==
    /\ turn[t].pc = "ai"
    /\ Step(t, [Logged(t, "aiEnd", 0) EXCEPT !.state = Written(t)],
            AfterHandler)
    /\ UNCHANGED << options, api, registry, storage, host >>

\* ------------------------------------------------------------ AI plan loop
\* Commands: DO of a registered action, DO of an action that is not
\* registered, DO whose entities hold an unresolved placeholder, and SAY.
Do(action, entities) == [type |-> "DO", action |-> action, entities |-> entities]
Say(response) == [type |-> "SAY", action |-> "", entities |-> response]
Actions == {"createWI", "flag"}
Commands ==
    {Do("createWI", "resolved"), Do("unknown", "resolved"),
     Do("createWI", "unresolved"), Say("done")}

\* The Plans a Planner returns: up to MaxCommands Commands.
Plans == UNION {[1..n -> Commands] : n \in 0..MaxCommands}

\* The Plan a Moderator substitutes: a single Command that flags.
RedirectPlan == << Do("flag", "resolved") >>
None == << Say("none") >>

\* A History Entry {role, text}; a text is a sequence of words.
HistoryEntry(role, text) == [role |-> role, text |-> text]

\* A step of the loop that sends an activity: the typing timer stops.
Emit(t, rec, nxt) ==
    /\ turn' = [turn EXCEPT ![t] =
                  [rec EXCEPT !.pc = nxt.pc, !.i = nxt.i, !.result = nxt.result,
                              !.msgs = @ + 1, !.timerRunning = FALSE]]
    /\ IF turn[t].timerRunning \/ nxt.pc = "done"
       THEN StopTypingTimer
       ELSE UNCHANGED << _typingTimer, timeouts >>

\* The position after Command k - 1 of the Plan has been dealt with and no
\* SAY was met: Command k, or, at the end of the Plan, another round while
\* the step counter is below its maximum, else exhaustion.
NextCommandOneMoreRound(ai, k) ==
    IF k <= Len(ai.plan) THEN Pos("exec", k)
    ELSE IF ai.round <= MaxSteps THEN Pos("render", 0)
    ELSE Pos("exhausted", 0)

NextCommandNeverReplans(ai, k) ==
    IF k <= Len(ai.plan) THEN Pos("exec", k) ELSE Pos("exhausted", 0)

NextCommand(ai, k) ==
    IF k <= Len(ai.plan) THEN Pos("exec", k)
    ELSE IF ai.round < MaxSteps THEN Pos("render", 0)
    ELSE Pos("exhausted", 0)

\* 1. The prompt is rendered: a round starts; the first round appends the
\* user's input to the history.
RenderPrompt(t) ==
    /\ turn[t].pc \in {"ai", "render"}
    /\ LET ai == turn[t].ai
           rec == Logged(t, "render", ai.round + 1)
       IN  Step(t, [rec EXCEPT !.ai = [ai EXCEPT
                        !.round = @ + 1, !.plan = << >>, !.source = "none",
                        !.reviewed = FALSE, !.executed = << >>,
                        !.history = IF ai.round = 0
                                    THEN Append(@, HistoryEntry("user", turn[t].activity.text))
                                    ELSE @]],
                Pos("reviewPrompt", 0))
    /\ UNCHANGED << options, api, registry, storage, host >>

\* 2. reviewPrompt after which the Planner is called whatever it returned.
ReviewPromptThenPlanner(t, redirect) ==
    /\ turn[t].pc = "reviewPrompt"
    /\ Step(t, Logged(t, IF redirect = None THEN "reviewPrompt" ELSE "redirect",
                       turn[t].ai.round),
            Pos("planner", 0))
    /\ UNCHANGED << options, api, registry, storage, host >>

\* 2. reviewPrompt whose redirect Plan is executed without reviewPlan.
ReviewPromptRedirectExecutes(t, redirect) ==
    /\ turn[t].pc = "reviewPrompt"
    /\ LET ai == turn[t].ai
       IN  IF redirect = None
           THEN Step(t, Logged(t, "reviewPrompt", ai.round), Pos("planner", 0))
           ELSE Step(t, [Logged(t, "redirect", ai.round) EXCEPT
                            !.ai = [ai EXCEPT !.plan = redirect, !.source = "redirect"]],
                     NextCommand([ai EXCEPT !.plan = redirect], 1))
    /\ UNCHANGED << options, api, registry, storage, host >>

\* 2. reviewPrompt(event, state, renderedPrompt) returns nothing, or a
\* redirect Plan with which the loop skips to reviewPlan.
ReviewPrompt(t, redirect) ==
    /\ turn[t].pc = "reviewPrompt"
    /\ LET ai == turn[t].ai
       IN  IF redirect = None
           THEN Step(t, Logged(t, "reviewPrompt", ai.round), Pos("planner", 0))
           ELSE Step(t, [Logged(t, "redirect", ai.round) EXCEPT
                            !.ai = [ai EXCEPT !.plan = redirect, !.source = "redirect"]],
                     Pos("reviewPlan", 0))
    /\ UNCHANGED << options, api, registry, storage, host >>

\* 3. Planner.completePrompt(event, state, renderedPrompt) returns a Plan.
CompletePrompt(t, plan) ==
    /\ turn[t].pc = "planner"
    /\ LET ai == turn[t].ai
       IN  Step(t, [Logged(t, "planner", ai.round) EXCEPT
                       !.ai = [ai EXCEPT !.planner = @ + 1, !.plan = plan,
                                         !.source = "planner"]],
                Pos("reviewPlan", 0))
    /\ UNCHANGED << options, api, registry, storage, host >>

\* 3. A failing Planner call after which the Planner is called again.
PlannerFailsRetries(t) ==
    /\ turn[t].pc = "planner"
    /\ LET ai == turn[t].ai
       IN  Step(t, [Logged(t, "plannerError", ai.round) EXCEPT
                       !.ai = [ai EXCEPT !.planner = @ + 1]],
                Pos("planner", 0))
    /\ UNCHANGED << options, api, registry, storage, host >>

\* 3. The Planner call errors, or returns what is not a Plan: PlannerError
\* ends the loop.
PlannerFails(t) ==
    /\ turn[t].pc = "planner"
    /\ LET ai == turn[t].ai
       IN  Step(t, [Logged(t, "plannerError", ai.round) EXCEPT
                       !.ai = [ai EXCEPT !.planner = @ + 1,
                                         !.report = "PlannerError"]],
                Pos("report", 0))
    /\ UNCHANGED << options, api, registry, storage, host >>

\* 4. reviewPlan(event, state, plan) returns the Plan, or substitutes one;
\* the loop executes what it returns.
ReviewPlan(t, substitute) ==
    /\ turn[t].pc = "reviewPlan"
    /\ LET ai == turn[t].ai
           plan == IF substitute THEN RedirectPlan ELSE ai.plan
           reviewed == [ai EXCEPT !.plan = plan, !.reviewed = TRUE]
       IN  Step(t, [Logged(t, "reviewPlan", ai.round) EXCEPT !.ai = reviewed],
                NextCommand(reviewed, 1))
    /\ UNCHANGED << options, api, registry, storage, host >>

\* The Command the loop is at.
Command(t) == turn[t].ai.plan[turn[t].i]
Executed(t, e) ==
    [Logged(t, e, turn[t].i) EXCEPT !.ai.executed = Append(@, Command(t))]

\* 5. DO: the action is registered and its entities are resolved: the
\* action is invoked.
InvokeAction(t) ==
    /\ turn[t].pc = "exec"
    /\ Command(t).type = "DO"
    /\ Command(t).action \in Actions /\ Command(t).entities = "resolved"
    /\ Step(t, Executed(t, "do"), Pos("do", turn[t].i))
    /\ UNCHANGED << options, api, registry, storage, host >>

\* 5. The action returns: its value becomes the output and the next
\* Command follows.
ActionReturns(t) ==
    /\ turn[t].pc = "do"
    /\ Step(t, [Logged(t, "doEnd", turn[t].i) EXCEPT
                    !.ai.output = Command(t).action, !.state = Written(t)],
            NextCommand(turn[t].ai, turn[t].i + 1))
    /\ UNCHANGED << options, api, registry, storage, host >>

\* 5. DO of an action that is not registered, with the remainder of the
\* Plan dropped.
UnknownActionAborts(t) ==
    /\ turn[t].pc = "exec"
    /\ Command(t).type = "DO" /\ Command(t).action \notin Actions
    /\ Step(t, Executed(t, "unknownAction"),
            NextCommand(turn[t].ai, Len(turn[t].ai.plan) + 1))
    /\ UNCHANGED << options, api, registry, storage, host >>

\* 5. DO of an action that is not registered: UnknownActionError fails the
\* Command and the next Command follows.
UnknownAction(t) ==
    /\ turn[t].pc = "exec"
    /\ Command(t).type = "DO" /\ Command(t).action \notin Actions
    /\ Step(t, Executed(t, "unknownAction"),
            NextCommand(turn[t].ai, turn[t].i + 1))
    /\ UNCHANGED << options, api, registry, storage, host >>

\* 5. DO whose entities hold an unresolved placeholder, with the remainder
\* of the Plan dropped.
InvalidEntitiesAborts(t) ==
    /\ turn[t].pc = "exec"
    /\ Command(t).type = "DO"
    /\ Command(t).action \in Actions /\ Command(t).entities # "resolved"
    /\ Step(t, Executed(t, "invalidEntities"),
            NextCommand(turn[t].ai, Len(turn[t].ai.plan) + 1))
    /\ UNCHANGED << options, api, registry, storage, host >>

\* 5. DO whose entities hold an unresolved placeholder:
\* InvalidEntitiesError fails the Command and the next Command follows.
InvalidEntities(t) ==
    /\ turn[t].pc = "exec"
    /\ Command(t).type = "DO"
    /\ Command(t).action \in Actions /\ Command(t).entities # "resolved"
    /\ Step(t, Executed(t, "invalidEntities"),
            NextCommand(turn[t].ai, turn[t].i + 1))
    /\ UNCHANGED << options, api, registry, storage, host >>

\* 5. SAY that leaves the history as it is.
SayResponseNoHistory(t) ==
    /\ turn[t].pc = "exec"
    /\ Command(t).type = "SAY"
    /\ Emit(t, Executed(t, "say"), AfterHandler)
    /\ UNCHANGED << options, api, registry, storage, host >>

\* 5. SAY that goes on with the next Command.
SayResponseGoesOn(t) ==
    /\ turn[t].pc = "exec"
    /\ Command(t).type = "SAY"
    /\ Emit(t, [Executed(t, "say") EXCEPT !.ai.history =
                    Append(@, HistoryEntry("assistant", << Command(t).entities >>))],
            NextCommand(turn[t].ai, turn[t].i + 1))
    /\ UNCHANGED << options, api, registry, storage, host >>

\* 5. SAY: the response is sent and appended to the history, and the Plan,
\* and with it the loop, ends.
SayResponse(t) ==
    /\ turn[t].pc = "exec"
    /\ Command(t).type = "SAY"
    /\ Emit(t, [Executed(t, "say") EXCEPT !.ai.history =
                    Append(@, HistoryEntry("assistant", << Command(t).entities >>))],
            AfterHandler)
    /\ UNCHANGED << options, api, registry, storage, host >>

\* 6. The step maximum is reached without a SAY: StepBudgetExhausted.
Exhausted(t) ==
    /\ turn[t].pc = "exhausted"
    /\ Step(t, [Logged(t, "exhausted", turn[t].ai.round) EXCEPT
                    !.ai.report = "StepBudgetExhausted"],
            Pos("report", 0))
    /\ UNCHANGED << options, api, registry, storage, host >>

\* PlannerError and StepBudgetExhausted are reported to the conversation;
\* the turn goes on with its afterTurn hooks.
Report(t) ==
    /\ turn[t].pc = "report"
    /\ Emit(t, Logged(t, "report", turn[t].ai.round), AfterHandler)
    /\ UNCHANGED << options, api, registry, storage, host >>

\* afterTurn hooks whose false result does not keep run() from saving.
AfterTurnSavesAnyway(t, continueExecution) ==
    /\ turn[t].pc = "after"
    /\ Step(t, Logged(t, IF continueExecution THEN "after" ELSE "afterFalse",
                       turn[t].i),
            NextHandler(_afterTurn, "after", turn[t].i, continueExecution,
                        Pos("save", 0), Pos("save", 0)))
    /\ UNCHANGED << options, api, registry, storage, host >>

\* an afterTurn hook returns
AfterTurn(t, continueExecution) ==
    /\ turn[t].pc = "after"
    /\ Step(t, Logged(t, IF continueExecution THEN "after" ELSE "afterFalse",
                       turn[t].i),
            NextHandler(_afterTurn, "after", turn[t].i, continueExecution,
                        Pos("save", 0), Return("true")))
    /\ UNCHANGED << options, api, registry, storage, host >>

\* saveState after the afterTurn hooks, with run() returning false.
SaveStateReturnFalse(t) ==
    /\ turn[t].pc = "save"
    /\ storage' = SavedStorage(turn[t].key, turn[t].state)
    /\ Step(t, Logged(t, "save", 0), Return("false"))
    /\ UNCHANGED << options, api, registry, host >>

\* saveState after the afterTurn hooks; return true
SaveState(t) ==
    /\ turn[t].pc = "save"
    /\ storage' = SavedStorage(turn[t].key, turn[t].state)
    /\ Step(t, Logged(t, "save", 0), Return("true"))
    /\ UNCHANGED << options, api, registry, host >>

\* --------------------------------------------------- timer callback
\* The timeout of turn t fires: onTimeout calls context.sendActivity(typing).
\* typingIn records the part of run() the send is initiated in, and whether
\* the turn, still running, had sent a message before.
OnTimeout(t) ==
    /\ t \in timeouts
    /\ turn[t].typing < host.typing
    /\ timeouts' = timeouts \ {t}
    /\ turn' = [turn EXCEPT ![t] =
                  [@ EXCEPT !.typing = @ + 1, !.sending = TRUE,
                            !.typingIn = @ \cup {Phase(turn[t].pc)} \cup
                                (IF turn[t].msgs > 0 /\ turn[t].pc # "done"
                                 THEN {"afterMessage"} ELSE {})]]
    /\ UNCHANGED << options, api, registry, _typingTimer, storage, host >>

\* The typing send resolves: if (timerRunning) this._typingTimer = setTimeout(...)
TypingSent(t) ==
    /\ turn[t].sending
    /\ turn' = [turn EXCEPT ![t].sending = FALSE]
    /\ IF turn[t].timerRunning
       THEN /\ _typingTimer' = t
            /\ timeouts' = timeouts \cup {t}
       ELSE UNCHANGED << _typingTimer, timeouts >>
    /\ UNCHANGED << options, api, registry, storage, host >>

\* The typing send throws: catch { this._typingTimer = undefined; timerRunning = false }
TypingFailed(t) ==
    /\ turn[t].sending
    /\ turn' = [turn EXCEPT ![t].sending = FALSE, ![t].timerRunning = FALSE]
    /\ _typingTimer' = 0
    /\ UNCHANGED << options, api, registry, timeouts, storage, host >>

\* ----------------------------------------------------------- proactive API
\* continueConversationAsync up to the call of the adapter: it throws without
\* an adapter; without a botAppId it warns and passes '' to the adapter.
ContinueConversationAsync(op) ==
    IF ~options.adapter
    THEN [op |-> op, outcome |-> "threw", botAppId |-> "", sent |-> 0]
    ELSE [op |-> op, outcome |-> "adapter",
          botAppId |-> IF options.botAppId THEN "botAppId" ELSE "", sent |-> 0]

\* sendProactiveActivity(context, activityOrText) is called by the bot's code.
SendProactiveActivity ==
    /\ api.op = "none"
    /\ api' = ContinueConversationAsync("sendProactiveActivity")
    /\ UNCHANGED << options, registry, _typingTimer, timeouts, storage, host, turn >>

\* The adapter calls the logic of sendProactiveActivity: ctx.sendActivity.
ProactiveLogic ==
    /\ api.outcome = "adapter"
    /\ api' = [api EXCEPT !.outcome = "logic", !.sent = @ + 1]
    /\ UNCHANGED << options, registry, _typingTimer, timeouts, storage, host, turn >>

\* ------------------------------------------- selectors on partial events
\* An event is a TurnContext of which fields may be missing.  The fields form
\* a tree: context.activity.{type, text, name, channelData.eventType,
\* membersAdded, membersRemoved, reactionsAdded, reactionsRemoved,
\* value.data.{verb, command}}; 'verb' is the default taskDataFilter and
\* 'command' one an application configures.
MessageReaction == "messageReaction"
FETCH_INVOKE_NAME == "task/fetch"
SUBMIT_INVOKE_NAME == "task/submit"
DEFAULT_TASK_DATA_FILTER == "verb"

Fields ==
    {"context", "activity", "type", "text", "name", "channelData", "eventType",
     "membersAdded", "membersRemoved", "reactionsAdded", "reactionsRemoved",
     "value", "data", "verb", "command"}

Parent(f) ==
    IF f = "activity" THEN "context"
    ELSE IF f = "eventType" THEN "channelData"
    ELSE IF f = "data" THEN "value"
    ELSE IF f \in {"verb", "command"} THEN "data"
    ELSE "activity"

\* The events with every field: one per activity type and invoke name; the
\* arrays are given by their length.
FullEvents ==
    [type : {Message, Invoke, ConversationUpdate, MessageReaction},
     text : {<< "reset" >>},
     name : {FETCH_INVOKE_NAME, SUBMIT_INVOKE_NAME},
     eventType : {"channelCreated"},
     membersAdded : {0, 1}, membersRemoved : {1},
     reactionsAdded : {1}, reactionsRemoved : {1},
     verb : {"open", "close"}, command : {"open"}]

\* The number of fields an event lacks (each with what is below it).
MaxMissing == 2

\* An event: a full event, the fields removed from it, and whether
\* value.data is null.
PartialEvents ==
    {[full |-> e, missing |-> m, dataNull |-> n] :
        e \in FullEvents,
        m \in {x \in SUBSET Fields : Cardinality(x) <= MaxMissing},
        n \in BOOLEAN}

\* The field is there: neither it nor any field above it was removed.
RECURSIVE Has(_, _)
Has(ev, f) ==
    /\ f \notin ev.missing
    /\ f = "context" \/ Has(ev, Parent(f))

\* The field is there and holds an object other than null.
IsObject(ev, f) == Has(ev, f) /\ ~(f = "data" /\ ev.dataNull)

\* The member access parent.f does not throw a TypeError.
Readable(ev, f) == IsObject(ev, Parent(f))

\* typeof of the value of the optional chain that ends at field f.
Typeof(ev, f) ==
    IF ~Has(ev, f) THEN "undefined"
    ELSE IF f \in {"context", "activity", "channelData", "value", "data"}
    THEN "object"
    ELSE IF f \in {"membersAdded", "membersRemoved", "reactionsAdded",
                   "reactionsRemoved"}
    THEN "array"
    ELSE "string"

\* RegExp.test: the strings (or texts) a pattern matches.
Language(re) ==
    IF re = "/^(message|invoke)$/" THEN {Message, Invoke}
    ELSE IF re = "/^reset$/" THEN {<< "reset" >>}
    ELSE IF re = "/^op/" THEN {"open"}
    ELSE {}
RegExpTest(re, x) == x \in Language(re)

Bool(b) == IF b THEN "true" ELSE "false"

\* context?.activity?.type == type
TypeIs(ev, type) == Has(ev, "type") /\ ev.full.type = type

\* Array.isArray(context?.activity?.f) && context.activity.f.length > 0
NonEmptyArray(ev, f) ==
    IF Typeof(ev, f) # "array" THEN "false"
    ELSE IF ~Readable(ev, f) THEN "throws"
    ELSE Bool(ev.full[f] > 0)

\* The selectors of createTaskSelector for a verb given as a string or as a
\* RegExp.
TaskSelector(verb, filterField, invokeName) ==
    [kind |-> invokeName, arg |-> verb, field |-> filterField]
TaskRegExpSelector(verb, filterField, invokeName) ==
    [kind |-> invokeName \o " RegExp", arg |-> verb, field |-> filterField]

\* The selector function of the bot's author that is passed as a verb.
SelectorFunction(name) == [kind |-> "function", arg |-> name, field |-> ""]

BuiltSelectors ==
    {ActivitySelector(Message), ActivitySelector(ConversationUpdate),
     [kind |-> "activity RegExp", arg |-> "/^(message|invoke)$/"],
     MessageSelector("reset"),
     [kind |-> "message RegExp", arg |-> "/^reset$/"],
     [kind |-> "membersAdded", arg |-> ""],
     [kind |-> "membersRemoved", arg |-> ""],
     [kind |-> "conversationUpdate", arg |-> "channelCreated"],
     [kind |-> "reactionsAdded", arg |-> ""],
     [kind |-> "reactionsRemoved", arg |-> ""],
     TaskSelector("open", "verb", FETCH_INVOKE_NAME),
     TaskSelector("open", "verb", SUBMIT_INVOKE_NAME),
     TaskRegExpSelector("/^op/", "verb", FETCH_INVOKE_NAME),
     TaskRegExpSelector("/^op/", "verb", SUBMIT_INVOKE_NAME)}

\* createTaskSelector: the selector for invokeName applied to an event.
SelectTask(sel, invokeName, isRegExp, ev) ==
    LET isInvoke == TypeIs(ev, Invoke)
                        /\ Has(ev, "name") /\ ev.full.name = invokeName
    IN  IF ~(isInvoke /\ Typeof(ev, "data") = "object") THEN "false"
        ELSE IF ~Readable(ev, sel.field) THEN "throws"
        ELSE IF isRegExp
        THEN IF Typeof(ev, sel.field) = "string"
             THEN Bool(RegExpTest(sel.arg, ev.full[sel.field]))
             ELSE "false"
        ELSE Bool(Has(ev, sel.field) /\ ev.full[sel.field] = sel.arg)

\* What a selector built by a registration helper does when it is called
\* with an event: "true", "false", or "throws".
Select(sel, ev) ==
    IF sel.kind = "activity"
    THEN IF Has(ev, "type") /\ ev.full.type # ""
         THEN IF ~Readable(ev, "type") THEN "throws"
              ELSE Bool(ToLocaleLowerCase(ev.full.type) = sel.arg)
         ELSE "false"
    ELSE IF sel.kind = "activity RegExp"
    THEN IF Has(ev, "type") /\ ev.full.type # ""
         THEN IF ~Readable(ev, "type") THEN "throws"
              ELSE Bool(RegExpTest(sel.arg, ev.full.type))
         ELSE "false"
    ELSE IF sel.kind \in {"message", "message RegExp"}
    THEN IF ~TypeIs(ev, Message) THEN "false"
         ELSE IF ~Readable(ev, "text") THEN "throws"
         ELSE IF ~Has(ev, "text") \/ ev.full.text = << >> THEN "false"
         ELSE IF sel.kind = "message"
         THEN Bool(Contains(ev.full.text, sel.arg))
         ELSE Bool(RegExpTest(sel.arg, ev.full.text))
    ELSE IF sel.kind \in {"membersAdded", "membersRemoved"}
    THEN IF ~TypeIs(ev, ConversationUpdate) THEN "false"
         ELSE NonEmptyArray(ev, sel.kind)
    ELSE IF sel.kind = "conversationUpdate"
    THEN Bool(TypeIs(ev, ConversationUpdate)
                /\ Has(ev, "eventType") /\ ev.full.eventType = sel.arg)
    ELSE IF sel.kind \in {"reactionsAdded", "reactionsRemoved"}
    THEN IF ~TypeIs(ev, MessageReaction) THEN "false"
         ELSE NonEmptyArray(ev, sel.kind)
    ELSE IF sel.kind = "function"
    THEN "true"
    ELSE IF sel.kind = FETCH_INVOKE_NAME
    THEN SelectTask(sel, FETCH_INVOKE_NAME, FALSE, ev)
    ELSE IF sel.kind = SUBMIT_INVOKE_NAME
    THEN SelectTask(sel, SUBMIT_INVOKE_NAME, FALSE, ev)
    ELSE IF sel.kind = FETCH_INVOKE_NAME \o " RegExp"
    THEN SelectTask(sel, FETCH_INVOKE_NAME, TRUE, ev)
    ELSE SelectTask(sel, SUBMIT_INVOKE_NAME, TRUE, ev)

\* this._app.options.taskModules?.taskDataFilter ?? DEFAULT_TASK_DATA_FILTER
Undefined == "undefined"
FilterField(taskDataFilter) ==
    IF taskDataFilter = Undefined THEN DEFAULT_TASK_DATA_FILTER ELSE taskDataFilter

\* The verbs a task module route is registered for: a string or a RegExp.
Verbs ==
    {[isFunction |-> FALSE, isRegExp |-> FALSE, verb |-> "open"],
     [isFunction |-> FALSE, isRegExp |-> TRUE, verb |-> "/^op/"]}

\* A verb given as a RouteSelector: a function of the bot's author that
\* resolves to true for every event; it is named after the registration
\* (task/fetch or task/submit) it is passed to.
FunctionVerb(name) == [isFunction |-> TRUE, isRegExp |-> FALSE, verb |-> name]

\* createTaskSelector(verb, filterField, invokeName): a function is returned
\* as it was passed in.
createTaskSelector(v, filterField, invokeName) ==
    IF v.isFunction
    THEN SelectorFunction(v.verb)
    ELSE IF v.isRegExp
    THEN TaskRegExpSelector(v.verb, filterField, invokeName)
    ELSE TaskSelector(v.verb, filterField, invokeName)

\* A selector is called with an event.
ApplySelector(sel, ev) ==
    /\ api' = [op |-> "selector", outcome |-> Select(sel, ev),
               selector |-> sel, event |-> ev]
    /\ UNCHANGED << options, registry, _typingTimer, timeouts, storage, host, turn >>

\* ------------------------------------------------------------ task modules
\* taskModules.fetch(verb, handler) of an application whose taskDataFilter
\* option is as given.
TaskModulesFetchDefaultLane(v, taskDataFilter) ==
    AddRoute(createTaskSelector(v, FilterField(taskDataFilter), FETCH_INVOKE_NAME),
             FALSE)

TaskModulesFetch(v, taskDataFilter) ==
    AddRoute(createTaskSelector(v, FilterField(taskDataFilter), FETCH_INVOKE_NAME),
             TRUE)

\* taskModules.submit(verb, handler)
TaskModulesSubmit(v, taskDataFilter) ==
    AddRoute(createTaskSelector(v, FilterField(taskDataFilter), SUBMIT_INVOKE_NAME),
             TRUE)

\* The invoke name a registered task route was built for.
InvokeNameOf(sel) ==
    IF sel.kind = "function" THEN sel.arg
    ELSE IF sel.kind \in {FETCH_INVOKE_NAME, FETCH_INVOKE_NAME \o " RegExp"}
    THEN FETCH_INVOKE_NAME
    ELSE SUBMIT_INVOKE_NAME

\* What a handler given to fetch or submit resolves to.
Results == {"null", "undefined", "string", "TaskInfo"}
FetchResults == {"string", "TaskInfo"}

\* typeof result
TypeofResult(result) ==
    IF result = "string" THEN "string"
    ELSE IF result = "undefined" THEN "undefined"
    ELSE "object"

\* A TaskModuleResponse; NoResponse is the body that stays undefined.
TaskResponse(type, value) == [type |-> type, value |-> value]
NoResponse == TaskResponse("undefined", "undefined")

\* The response the route of fetch formats.
FetchResponse(result) ==
    IF TypeofResult(result) = "string"
    THEN TaskResponse("message", result)
    ELSE TaskResponse("continue", result)

\* The response the route of submit formats.
SubmitResponse(result) ==
    IF TypeofResult(result) = "string"
    THEN TaskResponse("message", result)
    ELSE IF TypeofResult(result) = "object"
    THEN TaskResponse("continue", result)
    ELSE NoResponse

\* The activity queued with context.sendActivity; nothing is queued when
\* the handler has already added an invoke response.
NothingSent == [type |-> "none", status |-> 0, body |-> NoResponse]
InvokeResponse(body) == [type |-> "invokeResponse", status |-> 200, body |-> body]

\* if (type !== Invoke || name !== invokeName) throw ...
Expected(ev, invokeName) ==
    /\ TypeIs(ev, Invoke)
    /\ Has(ev, "name") /\ ev.full.name = invokeName

\* The route has thrown before it called the handler: nothing is sent.
RouteThrew(sel, ev) ==
    [op |-> "route", outcome |-> "threw", selector |-> sel, event |-> ev,
     called |-> FALSE, result |-> "undefined", responded |-> FALSE,
     sent |-> NothingSent]

\* The route has called the handler, which resolved to result, and has
\* queued the activity sent.
RouteHandled(sel, ev, result, responded, sent) ==
    [op |-> "route", outcome |-> "handled", selector |-> sel, event |-> ev,
     called |-> TRUE, result |-> result, responded |-> responded,
     sent |-> sent]

\* The route of a task module that queues its response whether or not the
\* handler has added one.
TaskRouteAlwaysResponds(result, responded) ==
    /\ api.op = "selector" /\ api.outcome = "true"
    /\ LET invokeName == InvokeNameOf(api.selector)
           body == IF invokeName = FETCH_INVOKE_NAME
                   THEN FetchResponse(result) ELSE SubmitResponse(result)
       IN  /\ invokeName = FETCH_INVOKE_NAME => result \in FetchResults
           /\ api' = IF Expected(api.event, invokeName)
                      THEN RouteHandled(api.selector, api.event, result, responded,
                                        InvokeResponse(body))
                      ELSE RouteThrew(api.selector, api.event)
    /\ UNCHANGED << options, registry, _typingTimer, timeouts, storage, host, turn >>

\* The route of a task module whose selector returned true runs: outside the
\* invoke it was registered for it throws; otherwise it calls the handler,
\* which resolves to result and has or has not added an invoke response
\* (responded), and queues the invoke response if none was added.
TaskRoute(result, responded) ==
    /\ api.op = "selector" /\ api.outcome = "true"
    /\ LET invokeName == InvokeNameOf(api.selector)
           body == IF invokeName = FETCH_INVOKE_NAME
                   THEN FetchResponse(result) ELSE SubmitResponse(result)
       IN  /\ invokeName = FETCH_INVOKE_NAME => result \in FetchResults
           /\ api' = IF Expected(api.event, invokeName)
                      THEN RouteHandled(api.selector, api.event, result, responded,
                                        IF responded THEN NothingSent
                                        ELSE InvokeResponse(body))
                      ELSE RouteThrew(api.selector, api.event)
    /\ UNCHANGED << options, registry, _typingTimer, timeouts, storage, host, turn >>

\* ------------------------------------------------------------ resolution
\* The route handler the loops of run() reach for activity a from position
\* pos; 0 when they reach the AI fallback.
RECURSIVE Resolve(_, _)
Resolve(a, pos) ==
    IF pos.pc = "invokeSel"
    THEN IF Matches(_invokeRoutes[pos.i].selector, a)
         THEN _invokeRoutes[pos.i].handler
         ELSE Resolve(a, ScanInvokeRoutes(a, pos.i + 1))
    ELSE IF pos.pc = "sel"
    THEN IF Matches(_routes[pos.i].selector, a)
         THEN _routes[pos.i].handler
         ELSE Resolve(a, ScanRoutes(a, pos.i + 1))
    ELSE 0

RouteFor(a) == Resolve(Received(a), Dispatch(Received(a)))

\* --------------------------------------------------------- specification
Next ==
    \/ \E s \in host.selectors, b \in BOOLEAN : AddRoute(s, b)
    \/ \E e \in host.events : TurnEvent(e)
    \/ \E t \in Turns, a \in Activities : Run(t, a)
    \/ \E t \in Turns : LoadState(t)
    \/ \E t \in Turns, r \in BOOLEAN : BeforeTurn(t, r)
    \/ \E t \in Turns : VetoSave(t)
    \/ \E t \in Turns : InvokeSelector(t)
    \/ \E t \in Turns : RouteSelector(t)
    \/ \E t \in Turns : SendActivity(t)
    \/ \E t \in Turns : HandlerDone(t)
    \/ \E t \in Turns : AIDone(t)
    \/ \E t \in Turns, r \in BOOLEAN : AfterTurn(t, r)
    \/ \E t \in Turns : SaveState(t)
    \/ \E t \in Turns : OnTimeout(t)
    \/ \E t \in Turns : TypingSent(t)
    \/ \E t \in Turns : TypingFailed(t)

Spec == Init /\ [][Next]_vars

\* Two turns of one application, one after the other: the second turn
\* starts once run() of the first has settled, while callbacks of the first
\* turn's timer may still be pending in the event loop.
InitTurns ==
    /\ options \in {o \in ApplicationOptions :
                        /\ Constructor(o)
                        /\ o.removeRecipientMention /\ o.startTypingTimer
                        /\ ~o.longRunningMessages /\ ~o.adapter /\ ~o.botAppId}
    /\ host = [keys |-> {DefaultKey}, turns |-> 2, inFlight |-> 1,
               routes |-> Few, hooks |-> Few, typing |-> Few, messages |-> Few,
               selectors |-> Selectors,
               events |-> {Name("beforeTurn"), Name("afterTurn")}]
    /\ Constructed

SpecTurns == InitTurns /\ [][Next]_vars

\* One turn of an application constructed with any options the constructor
\* accepts, whose code also registers throwing selectors and handlers, passes
\* arrays of event names to turn(), and calls the proactive API.
InitApp ==
    /\ options \in {o \in ApplicationOptions :
                        Constructor(o) /\ o.removeRecipientMention}
    /\ host = [keys |-> {DefaultKey}, turns |-> 1, inFlight |-> 1,
               routes |-> Few, hooks |-> MaxHooks, typing |-> Few, messages |-> Few,
               selectors |-> {ActivitySelector(Message), ThrowingSelector},
               events |-> {Name("beforeTurn"), Name("afterTurn"),
                           Array(<< "afterTurn" >>),
                           Array(<< "beforeTurn", "afterTurn" >>)}]
    /\ Constructed

NextApp ==
    \/ Next
    \/ \E t \in Turns : ContinueConversation(t)
    \/ \E t \in Turns : AdapterFails(t)
    \/ \E t \in Turns : HandlerThrows(t)
    \/ SendProactiveActivity
    \/ ProactiveLogic

SpecApp == InitApp /\ [][NextApp]_vars

\* Two turns, one after the other, each of any conversation and any user;
\* a handler may delete the conversation scope and may throw.  The turns
\* end before the typing timer fires and their handlers send nothing.
InitStore ==
    /\ options \in {o \in ApplicationOptions :
                        /\ Constructor(o)
                        /\ o.removeRecipientMention /\ o.startTypingTimer
                        /\ ~o.longRunningMessages /\ ~o.adapter /\ ~o.botAppId}
    /\ host = [keys |-> Keys, turns |-> NumTurns, inFlight |-> 1,
               routes |-> Few, hooks |-> Few, typing |-> Few, messages |-> Few,
               selectors |-> {ActivitySelector(Message)},
               events |-> {Name("beforeTurn"), Name("afterTurn")}]
    /\ Constructed

NextStore ==
    \/ \E sel \in host.selectors, b \in BOOLEAN : AddRoute(sel, b)
    \/ \E e \in host.events : TurnEvent(e)
    \/ \E t \in Turns, a \in Activities : Run(t, a)
    \/ \E t \in Turns : LoadState(t)
    \/ \E t \in Turns, r \in BOOLEAN : BeforeTurn(t, r)
    \/ \E t \in Turns : VetoSave(t)
    \/ \E t \in Turns : InvokeSelector(t)
    \/ \E t \in Turns : RouteSelector(t)
    \/ \E t \in Turns : HandlerDone(t)
    \/ \E t \in Turns : AIDone(t)
    \/ \E t \in Turns, r \in BOOLEAN : AfterTurn(t, r)
    \/ \E t \in Turns : SaveState(t)
    \/ \E t \in Turns : HandlerDoneDeleting(t)
    \/ \E t \in Turns : HandlerThrows(t)

SpecStore == InitStore /\ [][NextStore]_vars

\* An application registers task module routes; then an event reaches the
\* selector of a registered route and, when it returns true, the route runs.
RegisteredSelectors ==
    {_invokeRoutes[i].selector : i \in 1..Len(_invokeRoutes)} \cup
    {_routes[i].selector : i \in 1..Len(_routes)}

NextTasks ==
    \/ /\ api.op = "none"
       /\ \E v \in Verbs \cup {FunctionVerb(FETCH_INVOKE_NAME)},
             f \in {Undefined, "command"} : TaskModulesFetch(v, f)
    \/ /\ api.op = "none"
       /\ \E v \in Verbs \cup {FunctionVerb(SUBMIT_INVOKE_NAME)},
             f \in {Undefined, "command"} : TaskModulesSubmit(v, f)
    \/ /\ api.op = "none"
       /\ \E sel \in RegisteredSelectors, ev \in PartialEvents : ApplySelector(sel, ev)
    \/ \E result \in Results, responded \in BOOLEAN : TaskRoute(result, responded)

InitTasks ==
    /\ options \in {o \in ApplicationOptions :
                        /\ Constructor(o) /\ ~o.ai
                        /\ o.removeRecipientMention /\ o.startTypingTimer
                        /\ ~o.longRunningMessages /\ ~o.adapter /\ ~o.botAppId}
    /\ host = [keys |-> {DefaultKey}, turns |-> 0, inFlight |-> 0,
               routes |-> Few, hooks |-> 0, typing |-> 0, messages |-> 0,
               selectors |-> {}, events |-> {}]
    /\ Constructed

SpecTasks == InitTasks /\ [][NextTasks]_vars

\* Two turns of one conversation and one user that the host runs at the
\* same time on an application without hooks: their steps interleave.
InitRace ==
    /\ options \in {o \in ApplicationOptions :
                        /\ Constructor(o)
                        /\ o.removeRecipientMention /\ o.startTypingTimer
                        /\ ~o.longRunningMessages /\ ~o.adapter /\ ~o.botAppId}
    /\ host = [keys |-> {DefaultKey}, turns |-> NumTurns, inFlight |-> NumTurns,
               routes |-> Few, hooks |-> 0, typing |-> Few, messages |-> Few,
               selectors |-> {ActivitySelector(Message)}, events |-> {}]
    /\ Constructed

NextRace ==
    \/ \E sel \in host.selectors, b \in BOOLEAN : AddRoute(sel, b)
    \/ \E t \in Turns, a \in Activities : Run(t, a)
    \/ \E t \in Turns : LoadState(t)
    \/ \E t \in Turns : InvokeSelector(t)
    \/ \E t \in Turns : RouteSelector(t)
    \/ \E t \in Turns : SendActivity(t)
    \/ \E t \in Turns : HandlerDone(t)
    \/ \E t \in Turns : AIDone(t)
    \/ \E t \in Turns : SaveState(t)
    \/ \E t \in Turns : OnTimeout(t)
    \/ \E t \in Turns : TypingSent(t)
    \/ \E t \in Turns : TypingFailed(t)

SpecRace == InitRace /\ [][NextRace]_vars

\* One turn of an application with an AI subsystem and without routes: a
\* message with text reaches the AI plan loop, of which every step is taken.
InitAI ==
    /\ options \in {o \in ApplicationOptions :
                        /\ Constructor(o) /\ o.ai
                        /\ o.removeRecipientMention /\ o.startTypingTimer
                        /\ ~o.longRunningMessages /\ ~o.adapter /\ ~o.botAppId}
    /\ host = [keys |-> {DefaultKey}, turns |-> 1, inFlight |-> 1,
               routes |-> 0, hooks |-> Few, typing |-> 0, messages |-> 0,
               selectors |-> {}, events |-> {Name("beforeTurn"), Name("afterTurn")}]
    /\ Constructed

NextAI ==
    \/ \E e \in host.events : TurnEvent(e)
    \/ \E t \in Turns, a \in Activities : Run(t, a)
    \/ \E t \in Turns : LoadState(t)
    \/ \E t \in Turns, r \in BOOLEAN : BeforeTurn(t, r)
    \/ \E t \in Turns : VetoSave(t)
    \/ \E t \in Turns : RenderPrompt(t)
    \/ \E t \in Turns, redirect \in {None, RedirectPlan} : ReviewPrompt(t, redirect)
    \/ \E t \in Turns, plan \in Plans : CompletePrompt(t, plan)
    \/ \E t \in Turns : PlannerFails(t)
    \/ \E t \in Turns, substitute \in BOOLEAN : ReviewPlan(t, substitute)
    \/ \E t \in Turns : InvokeAction(t)
    \/ \E t \in Turns : ActionReturns(t)
    \/ \E t \in Turns : UnknownAction(t)
    \/ \E t \in Turns : InvalidEntities(t)
    \/ \E t \in Turns : SayResponse(t)
    \/ \E t \in Turns : Exhausted(t)
    \/ \E t \in Turns : Report(t)
    \/ \E t \in Turns, r \in BOOLEAN : AfterTurn(t, r)
    \/ \E t \in Turns : SaveState(t)

SpecAI == InitAI /\ [][NextAI]_vars

\* The calls the loop awaits (moderator, Planner, actions, sendActivity)
\* settle, and so do the hooks and the storage: a step of run() that is
\* possible is taken.
RunStep(t) ==
    \/ LoadState(t) \/ VetoSave(t) \/ SaveState(t)
    \/ \E r \in BOOLEAN : BeforeTurn(t, r) \/ AfterTurn(t, r)
    \/ RenderPrompt(t)
    \/ \E redirect \in {None, RedirectPlan} : ReviewPrompt(t, redirect)
    \/ \E plan \in Plans : CompletePrompt(t, plan)
    \/ PlannerFails(t)
    \/ \E substitute \in BOOLEAN : ReviewPlan(t, substitute)
    \/ InvokeAction(t) \/ ActionReturns(t) \/ UnknownAction(t)
    \/ InvalidEntities(t) \/ SayResponse(t) \/ Exhausted(t) \/ Report(t)

SpecAIFair == SpecAI /\ \A t \in Turns : WF_vars(RunStep(t))

\* A selector of the registration helpers is applied to a partial event,
\* once.
NextSelectors ==
    /\ api.op = "none"
    /\ \E sel \in BuiltSelectors, ev \in PartialEvents : ApplySelector(sel, ev)

InitSelectors == Init /\ ~options.ai /\ options.removeRecipientMention

SpecSelectors == InitSelectors /\ [][NextSelectors]_vars

\* ================================================================ claims
HasEv(t, e) == \E k \in 1..Len(turn[t].log) : turn[t].log[k].e = e
CountEv(t, E) == Cardinality({k \in 1..Len(turn[t].log) : turn[t].log[k].e \in E})

\* No turn has started after turn t.
LatestTurn(t) == \A u \in Turns : u > t => turn[u].pc = "idle"

\* The handler of the first route of a lane, in registration order, whose
\* selector is true of activity a; 0 when there is none.
FirstMatch(lane, a) ==
    LET M == {k \in 1..Len(lane) : Matches(lane[k].selector, a)}
    IN  IF M = {} THEN 0
        ELSE lane[CHOOSE k \in M : \A j \in M : k <= j].handler

\* run() of turn t has decided where the activity goes.
PastDispatch(t) ==
    \/ turn[t].pc \in {"handler", "ai", "after", "save"}
    \/ turn[t].pc = "done" /\ ~HasEv(t, "beforeFalse")

\* C1 as stated: for an activity of any type the invoke lane is searched
\* first and then the default lane, and the handler of the first route whose
\* selector is true is the one dispatched (none iff no selector is true).
C1_AnyTypeBothLanes ==
    \A t \in Turns :
        PastDispatch(t) =>
            turn[t].handler =
                IF FirstMatch(_invokeRoutes, turn[t].activity) # 0
                THEN FirstMatch(_invokeRoutes, turn[t].activity)
                ELSE FirstMatch(_routes, turn[t].activity)

\* C1 amended: run() dispatches to the handler of the first route whose
\* selector is true, searching the invoke lane and then the default lane in
\* registration order for an invoke activity, and the default lane alone for
\* an activity of any other type; no route handler is dispatched iff no
\* selector of the lanes searched is true.
C1_FirstMatchInLaneOrder ==
    \A t \in Turns :
        PastDispatch(t) =>
            turn[t].handler =
                IF /\ turn[t].activity.type = Invoke
                   /\ FirstMatch(_invokeRoutes, turn[t].activity) # 0
                THEN FirstMatch(_invokeRoutes, turn[t].activity)
                ELSE FirstMatch(_routes, turn[t].activity)

\* A turn was dispatched to the second route of the default lane although a
\* route of the invoke lane has a selector that is true of the activity.
C1_Witness ==
    \E t \in Turns :
        /\ turn[t].pc = "done"
        /\ Len(_routes) = 2
        /\ turn[t].handler = _routes[2].handler
        /\ ~Matches(_routes[1].selector, turn[t].activity)

\* C2: for an invoke activity a matching route of the invoke lane is chosen
\* over every matching route of the default lane, whatever the order of
\* registration; when no selector of the invoke lane is true the activity is
\* resolved against the default lane in registration order.
C2_InvokeLanePriority ==
    \A t \in Turns :
        (PastDispatch(t) /\ turn[t].activity.type = Invoke) =>
            /\ FirstMatch(_invokeRoutes, turn[t].activity) # 0 =>
                   turn[t].handler = FirstMatch(_invokeRoutes, turn[t].activity)
            /\ FirstMatch(_invokeRoutes, turn[t].activity) = 0 =>
                   turn[t].handler = FirstMatch(_routes, turn[t].activity)

\* An invoke activity went to the invoke-lane route registered second, past
\* a matching default-lane route registered first.
C2_Witness ==
    \E t \in Turns :
        /\ turn[t].pc = "done"
        /\ turn[t].activity.type = Invoke
        /\ Len(_routes) = 1 /\ Len(_invokeRoutes) = 1
        /\ _routes[1].handler = 1
        /\ Matches(_routes[1].selector, turn[t].activity)
        /\ turn[t].handler = 2

\* An invoke activity fell through a non-matching invoke lane to the default lane.
C2_WitnessFallThrough ==
    \E t \in Turns :
        /\ turn[t].pc = "done"
        /\ turn[t].activity.type = Invoke
        /\ Len(_routes) = 1 /\ Len(_invokeRoutes) = 1
        /\ ~Matches(_invokeRoutes[1].selector, turn[t].activity)
        /\ turn[t].handler = _routes[1].handler

\* C3 as stated: an activity that resolves to a handler resolves to the same
\* handler after any further addRoute, to either lane.
C3_AnyAddRoute ==
    [][registry' # registry =>
          \A a \in Activities : RouteFor(a) # 0 => RouteFor(a)' = RouteFor(a)]_vars

\* The handler belongs to a route of the default lane.
InDefaultLane(h) == \E k \in 1..Len(_routes) : _routes[k].handler = h

\* C3 amended: registration appends; an activity that resolves to handler h
\* resolves to h after a further addRoute, except an invoke activity that
\* resolved to a default-lane handler when the route is added to the invoke lane.
C3_AppendOnly ==
    [][registry' # registry =>
          \A a \in Activities :
              (/\ RouteFor(a) # 0
               /\ ~(/\ a.type = Invoke
                    /\ InDefaultLane(RouteFor(a))
                    /\ Len(_invokeRoutes') > Len(_invokeRoutes)))
                  => RouteFor(a)' = RouteFor(a)]_vars

\* A second route whose selector is true of an activity was added after the
\* route the activity resolves to.
C3_Witness ==
    \E a \in Activities :
        /\ Len(_routes) = 2
        /\ RouteFor(a) = 1
        /\ Matches(_routes[2].selector, Received(a))

\* C4: in a turn where a beforeTurn hook returned false, state is saved
\* exactly once, no selector is evaluated, no route handler and no AI chain
\* runs, no afterTurn hook runs, and run() returns false.
C4_BeforeVeto ==
    \A t \in Turns :
        (turn[t].pc = "done" /\ HasEv(t, "beforeFalse")) =>
            /\ CountEv(t, {"save"}) = 1
            /\ LatestTurn(t) => LoadedState(turn[t].key) = [turn[t].state EXCEPT !.temp = 0]
            /\ CountEv(t, {"invokeSel", "sel", "handler", "handlerEnd",
                           "ai", "aiEnd", "after", "afterFalse"}) = 0
            /\ turn[t].result = "false"

\* A vetoed turn has settled although a route is registered for its activity.
C4_Witness ==
    \E t \in Turns :
        /\ turn[t].pc = "done"
        /\ HasEv(t, "beforeFalse")
        /\ RouteFor(turn[t].incoming) # 0

\* C5: in a turn where a handler ran and an afterTurn hook returned false,
\* saveState is not called and run() returns true; until a later turn
\* starts, the stored record holds the values the turn loaded.
C5_AfterVeto ==
    \A t \in Turns :
        (turn[t].pc = "done" /\ HasEv(t, "afterFalse")) =>
            /\ CountEv(t, {"handlerEnd", "aiEnd"}) = 1
            /\ ~HasEv(t, "save")
            /\ LatestTurn(t) => LoadedState(turn[t].key) = turn[t].loaded
            /\ turn[t].result = "true"

\* The handler of a turn changed the state and an afterTurn hook vetoed the save.
C5_Witness ==
    \E t \in Turns :
        /\ turn[t].pc = "done"
        /\ HasEv(t, "afterFalse")
        /\ turn[t].state.conversation # turn[t].loaded.conversation

C7_OneHandler ==
    \A t \in Turns : CountEv(t, {"handler", "ai"}) <= 1

\* A turn has settled after running one handler although the selectors of
\* two routes are true of its activity.
C7_Witness ==
    \E t \in Turns :
        /\ turn[t].pc = "done"
        /\ CountEv(t, {"handler", "ai"}) = 1
        /\ Len(_routes) = 2
        /\ Matches(_routes[1].selector, turn[t].activity)
        /\ Matches(_routes[2].selector, turn[t].activity)

\* C8: the beforeTurn hooks run in registration order right after the load
\* and all of them have returned before a selector is evaluated or a handler
\* starts; the afterTurn hooks run in registration order after the handler
\* has completed and all of them have returned before saveState.
C8_HookOrder ==
    \A t \in Turns :
        LET L == turn[t].log
        IN  /\ \A k \in 1..Len(L) :
                  L[k].e \in {"before", "beforeFalse"} =>
                      L[1].e = "load" /\ L[k].n = k - 1
            /\ \A q \in 1..Len(L) :
                  L[q].e \in {"invokeSel", "sel", "handler", "ai"} =>
                      /\ q > Len(_beforeTurn) + 1
                      /\ \A j \in 1..Len(_beforeTurn) : L[j + 1] = Ev("before", j)
            /\ \A k \in 1..Len(L) :
                  L[k].e \in {"after", "afterFalse"} =>
                      /\ k > L[k].n
                      /\ L[k - L[k].n].e \in {"handlerEnd", "aiEnd"}
            /\ \A q \in 1..Len(L) :
                  (L[q].e = "save" /\ ~HasEv(t, "beforeFalse")) =>
                      /\ q > Len(_afterTurn) + 1
                      /\ L[q - Len(_afterTurn) - 1].e \in {"handlerEnd", "aiEnd"}
                      /\ \A j \in 1..Len(_afterTurn) :
                             L[q - Len(_afterTurn) - 1 + j] = Ev("after", j)

\* A turn ran hooks on both sides of its handler and saved.
C8_Witness ==
    \E t \in Turns :
        /\ turn[t].pc = "done"
        /\ HasEv(t, "handlerEnd")
        /\ HasEv(t, "save")
        /\ Len(_beforeTurn) > 0
        /\ Len(_afterTurn) > 0

\* C9 as stated: the timer is cancelled when the turn reaches the afterTurn
\* hooks at the latest, so no typing activity is sent while the afterTurn
\* hooks run or the state is saved.
C9_NoTypingDuringAfterTurn ==
    \A t \in Turns : "afterTurn" \notin turn[t].typingIn

\* C9 amended: a turn stops the typing timer when its handler sends a
\* message activity while the timer is running, and when run() leaves its
\* try block (finally), which is after the afterTurn hooks and saveState; the
\* steps that enter or advance through the afterTurn hooks and the save leave
\* the timer as it is.
C9_StoppedAtMessageOrFinally ==
    [][\A t \in Turns :
          /\ (turn'[t].msgs > turn[t].msgs /\ turn[t].timerRunning) =>
                 /\ _typingTimer' = 0
                 /\ _typingTimer \notin timeouts'
                 /\ ~turn'[t].timerRunning
          /\ (turn[t].pc # "done" /\ turn'[t].pc = "done") =>
                 /\ _typingTimer' = 0
                 /\ _typingTimer \notin timeouts'
          /\ (turn'[t].pc # turn[t].pc /\ Phase(turn'[t].pc) = "afterTurn") =>
                 /\ UNCHANGED << _typingTimer, timeouts >>
                 /\ turn'[t].timerRunning = turn[t].timerRunning]_vars

\* A typing activity was sent while the afterTurn hooks ran or the state was
\* saved, in a turn whose handler sent no message, and the turn has settled.
C9_Witness ==
    \E t \in Turns :
        /\ turn[t].pc = "done"
        /\ "afterTurn" \in turn[t].typingIn
        /\ turn[t].msgs = 0
        /\ HasEv(t, "save")

\* C10: once run() has settled no timeout of the turn's typing timer is
\* pending and no typing activity is sent for the turn any more.
C10_NoTimerAfterSettle ==
    \A t \in Turns :
        turn[t].pc = "done" =>
            /\ t \notin timeouts
            /\ "settled" \notin turn[t].typingIn

\* C11: once a turn has sent a message activity, no typing send is initiated
\* later in that turn.
C11_NoTypingAfterMessage ==
    \A t \in Turns : "afterMessage" \notin turn[t].typingIn

\* C12: typing activities are only emitted in turns whose activity is a
\* message, and at most one timeout of the typing timer is pending at any
\* time.
C12_MessageTurnsOneTimer ==
    /\ \A t \in Turns : turn[t].typing > 0 => turn[t].incoming.type = Message
    /\ Cardinality(timeouts) <= 1

\* C13: in an application configured with startTypingTimer = false, run()
\* never arms the typing timer and no typing activity is sent.
C13_NoTimerWhenOptionOff ==
    ~options.startTypingTimer =>
        /\ timeouts = {}
        /\ _typingTimer = 0
        /\ \A t \in Turns : turn[t].typing = 0 /\ ~turn[t].timerRunning

\* C14: an application whose constructor returned has, if longRunningMessages
\* is set, both an adapter and a botAppId, and no run() of it fails for a
\* missing adapter or a missing botAppId.
C14_RejectedAtConfiguration ==
    /\ options.longRunningMessages => options.adapter /\ options.botAppId
    /\ \A t \in Turns : turn[t].error # "adapter"

\* A message turn of an application with longRunningMessages has run from
\* loadState to saveState on the proactive context and returned true.
C14_Witness ==
    \E t \in Turns :
        /\ options.longRunningMessages
        /\ turn[t].converted
        /\ turn[t].pc = "done" /\ turn[t].result = "true"
        /\ HasEv(t, "load") /\ HasEv(t, "save")

\* C15: with longRunningMessages, run() on the incoming context of a message
\* has completed by the time the handler runs on the proactive context.
C15_AcknowledgedBeforeHandler ==
    \A t \in Turns :
        turn[t].converted /\ turn[t].pc \in {"handler", "ai"} =>
            turn[t].result # "pending"

\* C16: a call of sendProactiveActivity (continueConversationAsync) by an
\* application without adapter or without botAppId throws and neither the
\* adapter nor the logic is called.
C16_ThrowsWithoutAdapterOrBotAppId ==
    api.op # "none" /\ (~options.adapter \/ ~options.botAppId) =>
        api.outcome = "threw" /\ api.sent = 0

\* C17: run() returns true iff a route handler or the AI chain was called
\* and completed, and false otherwise.
C17_TrueIffHandled ==
    \A t \in Turns :
        turn[t].pc = "done" =>
            turn[t].result =
                IF CountEv(t, {"handlerEnd", "aiEnd"}) > 0 THEN "true" ELSE "false"

\* A turn whose route handler completed has returned true although an
\* afterTurn hook returned false.
C17_Witness ==
    \E t \in Turns :
        /\ turn[t].pc = "done" /\ turn[t].result = "true"
        /\ HasEv(t, "handlerEnd") /\ HasEv(t, "afterFalse")

\* No route matched and the AI fallback did not apply: run() returned false.
C17_WitnessFalse ==
    \E t \in Turns :
        /\ turn[t].pc = "done" /\ turn[t].result = "false"
        /\ HasEv(t, "sel") /\ ~HasEv(t, "beforeFalse")

\* C19: when a selector or a route handler throws, run() rejects with the
\* error at once: the throw is the last event of the turn, no afterTurn hook
\* has run and the state has not been saved.
C19_ErrorsPropagate ==
    \A t \in Turns :
        HasEv(t, "selectorThrew") \/ HasEv(t, "handlerThrew") =>
            /\ turn[t].pc = "done" /\ turn[t].result = "threw"
            /\ turn[t].log[Len(turn[t].log)].e \in {"selectorThrew", "handlerThrew"}
            /\ CountEv(t, {"selectorThrew", "handlerThrew"}) = 1
            /\ CountEv(t, {"after", "afterFalse", "save", "handlerEnd", "ai"}) = 0
            /\ LatestTurn(t) => LoadedState(turn[t].key) = turn[t].loaded

\* A route handler threw after a beforeTurn hook had run, in an application
\* with an afterTurn hook.
C19_Witness ==
    \E t \in Turns :
        /\ turn[t].result = "threw"
        /\ HasEv(t, "handlerThrew") /\ HasEv(t, "before")
        /\ Len(_afterTurn) > 0

\* A selector threw.
C19_WitnessSelector ==
    \E t \in Turns : turn[t].result = "threw" /\ HasEv(t, "selectorThrew")

\* The event names a hook was registered for.
RegisteredFor(hook) == {hook.events[k] : k \in 1..Len(hook.events)}
Hooks(list) == {list[k] : k \in 1..Len(list)}

\* C20: a hook registered for 'afterTurn', by name or inside an array, is in
\* the afterTurn hooks, and every beforeTurn hook was registered for
\* 'beforeTurn'.
C20_HooksWhereRegistered ==
    /\ \A h \in Hooks(_beforeTurn) \cup Hooks(_afterTurn) :
          "afterTurn" \in RegisteredFor(h) => h \in Hooks(_afterTurn)
    /\ \A h \in Hooks(_beforeTurn) : "beforeTurn" \in RegisteredFor(h)

\* The fields a selector reads before it can return true.
Needs(sel) ==
    {"context", "activity", "type"} \cup
    (IF sel.kind \in {"message", "message RegExp"} THEN {"text"}
     ELSE IF sel.kind \in {"membersAdded", "membersRemoved", "reactionsAdded",
                           "reactionsRemoved"}
     THEN {sel.kind}
     ELSE IF sel.kind = "conversationUpdate" THEN {"channelData", "eventType"}
     ELSE IF sel.kind \in {"activity", "activity RegExp"} THEN {}
     ELSE {"name", "value", "data", sel.field})

\* The fields an event lacks: those removed, and data when it is null.
Lacks(ev) == ev.missing \cup (IF ev.dataNull THEN {"data"} ELSE {})

\* C18: a selector built by a registration helper never throws, and returns
\* false for an event that lacks a field it reads.
C18_SelectorsTotal ==
    api.op = "selector" =>
        /\ api.outcome # "throws"
        /\ Needs(api.selector) \cap Lacks(api.event) # {} => api.outcome = "false"

\* The turns before t that saved their state under the key of t's scope.
SavedBefore(t, scope) ==
    {u \in Turns : /\ u < t
                   /\ HasEv(u, "save")
                   /\ turn[u].key[scope] = turn[t].key[scope]}

\* What the latest such turn left in the scope; the empty scope when none.
LastSaved(t, scope) ==
    IF SavedBefore(t, scope) = {} THEN 0
    ELSE LET u == CHOOSE v \in SavedBefore(t, scope) :
                      \A w \in SavedBefore(t, scope) : w <= v
         IN  turn[u].state[scope]

\* C21: a turn starts with an empty temp scope, and with the conversation
\* and user scopes as the latest saved turn of the same conversation, of the
\* same user, left them: the value written, or nothing after a delete.
C21_TempEmptyScopesPersist ==
    \A t \in Turns :
        HasEv(t, "load") =>
            /\ turn[t].loaded.temp = 0
            /\ turn[t].loaded.conversation = LastSaved(t, "conversation")
            /\ turn[t].loaded.user = LastSaved(t, "user")

\* A second turn of the same conversation and of another user, after a
\* saved turn that wrote to the three scopes.
C21_Witness ==
    \E t \in Turns :
        /\ t > 1 /\ HasEv(t, "load") /\ HasEv(t - 1, "save")
        /\ turn[t - 1].state.temp # 0
        /\ turn[t].key.user # turn[t - 1].key.user
        /\ turn[t].loaded = [conversation |-> t - 1, user |-> 0, temp |-> 0]

\* A turn of the same conversation after a saved turn that deleted the
\* conversation scope.
C21_WitnessDeleted ==
    \E t \in Turns :
        /\ t > 1 /\ HasEv(t, "load") /\ HasEv(t - 1, "save")
        /\ turn[t].key = turn[t - 1].key
        /\ turn[t - 1].state.user # 0
        /\ turn[t].loaded = [conversation |-> 0, user |-> t - 1, temp |-> 0]

\* The route was registered for a verb given as a string or a RegExp.
IsVerbRoute(sel) == sel.kind # "function"

\* The event is an invoke of the name and carries, in the field the selector
\* reads, a verb the selector was registered for.
TaskEventFor(sel, ev) ==
    /\ Has(ev, "type") /\ ev.full.type = Invoke
    /\ Has(ev, "name") /\ ev.full.name = InvokeNameOf(sel)
    /\ Has(ev, sel.field) /\ ~ev.dataNull
    /\ IF sel.kind \in {FETCH_INVOKE_NAME, SUBMIT_INVOKE_NAME}
       THEN ev.full[sel.field] = sel.arg
       ELSE ev.full[sel.field] \in Language(sel.arg)

\* C22: the routes of taskModules.fetch and taskModules.submit are in the
\* invoke lane, and the route of a verb (a string or a RegExp) is selected, and
\* runs, only for an invoke of
\* its own name (task/fetch or task/submit) whose data holds a matching verb
\* in the taskDataFilter field.
C22_TaskRoutesInInvokeLane ==
    /\ _routes = << >>
    /\ (api.op = "selector" /\ api.outcome = "true" /\ IsVerbRoute(api.selector)) =>
           TaskEventFor(api.selector, api.event)
    /\ (api.op = "route" /\ IsVerbRoute(api.selector)) =>
           api.outcome = "handled" /\ TaskEventFor(api.selector, api.event)

\* The route of a fetch registered under a configured taskDataFilter has run.
C22_Witness ==
    /\ Len(_invokeRoutes) = 1
    /\ api.op = "route" /\ api.outcome = "handled"
    /\ api.selector = TaskSelector("open", "command", FETCH_INVOKE_NAME)

\* A submit route was not selected for a complete task/fetch invoke of its
\* verb.
C22_WitnessOtherName ==
    /\ api.op = "selector" /\ api.outcome = "false"
    /\ api.selector = TaskSelector("open", "verb", SUBMIT_INVOKE_NAME)
    /\ api.event.missing = {} /\ ~api.event.dataNull
    /\ api.event.full.type = Invoke /\ api.event.full.name = FETCH_INVOKE_NAME
    /\ api.event.full.verb = "open"

\* C23: the route of submit answers a handler that returns null or undefined
\* with status 200 and an empty body, a string with a 'message' task and a
\* TaskInfo with a 'continue' task.
C23_SubmitResponse ==
    api.op = "route" /\ InvokeNameOf(api.selector) = SUBMIT_INVOKE_NAME
        /\ api.sent # NothingSent =>
            /\ api.sent.status = 200
            /\ api.result \in {"null", "undefined"} => api.sent.body = NoResponse
            /\ api.result = "string" => api.sent.body.type = "message"
            /\ api.result = "TaskInfo" => api.sent.body.type = "continue"

\* ------------------------------------------------------------ AI plan loop
Log(t) == turn[t].log
CommandEvents == {"do", "unknownAction", "invalidEntities", "say"}
PlannerEvents == {"planner", "plannerError"}

\* No round starts between events i and j of the log of turn t.
SameRound(t, i, j) == \A m \in (i + 1) .. j : Log(t)[m].e # "render"

\* A Plan up to its first SAY; the whole Plan when it has none.
UpToSay(plan) ==
    LET says == {k \in 1..Len(plan) : plan[k].type = "SAY"}
    IN  IF says = {} THEN plan
        ELSE SubSeq(plan, 1, CHOOSE k \in says : \A m \in says : k <= m)

IsPrefix(s, q) == Len(s) <= Len(q) /\ s = SubSeq(q, 1, Len(s))

\* The round of turn t has a reviewed Plan and is done with its Commands.
RoundOver(t) == turn[t].ai.reviewed /\ turn[t].pc \notin {"exec", "do"}

\* C24: a Command executes only after reviewPlan has been invoked in its
\* round, on a Plan of the Planner as on a redirect Plan of reviewPrompt, and
\* the Commands executed are Commands of the Plan reviewPlan returned, in
\* its order.
C24_ReviewPlanBeforeCommands ==
    \A t \in Turns :
        /\ \A j \in 1..Len(Log(t)) :
              Log(t)[j].e \in CommandEvents =>
                  \E i \in 1..(j - 1) : /\ Log(t)[i].e = "reviewPlan"
                                        /\ SameRound(t, i, j)
        /\ turn[t].pc \in {"exec", "do"} \/ turn[t].ai.executed # << >> =>
              /\ turn[t].ai.reviewed
              /\ turn[t].ai.source \in {"planner", "redirect"}
              /\ IsPrefix(turn[t].ai.executed, turn[t].ai.plan)

\* The redirect Plan of reviewPrompt, returned by reviewPlan, has executed.
C24_Witness ==
    \E t \in Turns :
        /\ turn[t].ai.source = "redirect" /\ turn[t].ai.reviewed
        /\ turn[t].ai.executed = RedirectPlan
        /\ ~HasEv(t, "planner")

\* The Plan reviewPlan substituted for the Planner's has executed.
C24_WitnessSubstituted ==
    \E t \in Turns :
        /\ turn[t].ai.source = "planner" /\ turn[t].ai.reviewed
        /\ turn[t].ai.executed = RedirectPlan
        /\ HasEv(t, "planner")

\* C25: the Planner is called only right after reviewPrompt has returned
\* nothing for the prompt rendered in that round, and in a round in which
\* reviewPrompt returned a redirect Plan the Planner is not called.
C25_ReviewPromptBeforePlanner ==
    \A t \in Turns :
        /\ \A j \in 1..Len(Log(t)) :
              Log(t)[j].e \in PlannerEvents =>
                  /\ j > 2
                  /\ Log(t)[j - 1] = Ev("reviewPrompt", Log(t)[j].n)
                  /\ Log(t)[j - 2] = Ev("render", Log(t)[j].n)
        /\ \A i, j \in 1..Len(Log(t)) :
              Log(t)[i].e = "redirect" /\ Log(t)[j].e \in PlannerEvents =>
                  Log(t)[i].n # Log(t)[j].n
        /\ turn[t].ai.planner = CountEv(t, PlannerEvents)

\* reviewPrompt redirected the first round and the Planner was called in
\* the second.
C25_Witness ==
    \E t \in Turns :
        /\ Ev("redirect", 1) \in {Log(t)[j] : j \in 1..Len(Log(t))}
        /\ Ev("planner", 2) \in {Log(t)[j] : j \in 1..Len(Log(t))}
        /\ turn[t].ai.planner = 1

\* C26: the Commands of a Plan execute in list order, an action returns
\* before the next Command starts, SAY comes after every Command before it,
\* and nothing of the Plan executes after a SAY.
C26_InOrderSayTerminal ==
    \A t \in Turns :
        /\ \A i, j \in 1..Len(Log(t)) :
              /\ i < j /\ SameRound(t, i, j)
              /\ Log(t)[i].e \in CommandEvents /\ Log(t)[j].e \in CommandEvents
              => /\ Log(t)[j].n = Log(t)[i].n + (Cardinality({m \in i..(j - 1) :
                                       Log(t)[m].e \in CommandEvents}))
                 /\ Log(t)[i].e # "say"
                 /\ Log(t)[i].e = "do" =>
                       \E m \in (i + 1)..(j - 1) : Log(t)[m] = Ev("doEnd", Log(t)[i].n)
        /\ \A j \in 1..Len(Log(t)) :
              Log(t)[j].e = "say" =>
                  /\ j = Len(Log(t)) \/ Log(t)[j + 1].e \in {"after", "afterFalse", "save"}
                  /\ Cardinality({i \in 1..j : Log(t)[i].e \in CommandEvents
                                               /\ SameRound(t, i, j)}) = Log(t)[j].n

\* The Plan [DO, DO, SAY] has executed in full.
C26_Witness ==
    \E t \in Turns :
        /\ turn[t].ai.plan = << Do("createWI", "resolved"), Do("createWI", "resolved"),
                                Say("done") >>
        /\ turn[t].ai.executed = turn[t].ai.plan
        /\ turn[t].pc = "done"

\* Of the Plan [DO, SAY, DO] the last Command has not executed.
C26_WitnessAfterSay ==
    \E t \in Turns :
        /\ turn[t].ai.plan = << Do("createWI", "resolved"), Say("done"),
                                Do("createWI", "resolved") >>
        /\ Len(turn[t].ai.executed) = 2
        /\ turn[t].pc = "done"

LoopPositions ==
    {"ai", "render", "reviewPrompt", "planner", "reviewPlan", "exec", "do",
     "exhausted", "report"}

\* The loop of turn t has ended.
LoopEnded(t) == HasEv(t, "ai") /\ turn[t].pc \notin LoopPositions

\* C27: with a maximum of MaxSteps rounds the loop makes at most MaxSteps
\* Planner calls for an input and ends; StepBudgetExhausted is reported
\* only after round MaxSteps has ended without a SAY, and a loop that ends
\* without SAY and without PlannerError ends in StepBudgetExhausted.
C27_StepBudget ==
    /\ [](\A t \in Turns :
            /\ turn[t].ai.planner <= MaxSteps
            /\ turn[t].ai.round <= MaxSteps
            /\ turn[t].ai.report = "StepBudgetExhausted" =>
                  turn[t].ai.round = MaxSteps /\ ~HasEv(t, "say")
            /\ LoopEnded(t) /\ ~HasEv(t, "say") /\ ~HasEv(t, "plannerError") =>
                  turn[t].ai.report = "StepBudgetExhausted")
    /\ \A t \in Turns : turn[t].pc = "ai" ~> LoopEnded(t)

\* The Planner was called in each of MaxSteps rounds, never emitted SAY, and
\* the loop has ended in StepBudgetExhausted.
C27_Witness ==
    \E t \in Turns :
        /\ LoopEnded(t)
        /\ turn[t].ai.planner = MaxSteps
        /\ turn[t].ai.report = "StepBudgetExhausted"

\* Turn t takes the step that ends the execution of its Plan.
PlanEnds(t) ==
    /\ turn[t].pc \in {"reviewPlan", "exec", "do"}
    /\ turn'[t].pc \notin {"reviewPlan", "exec", "do"}

HasSay(plan) == \E k \in 1..Len(plan) : plan[k].type = "SAY"

\* C28: a round follows the execution of a Plan exactly when the Plan ended
\* without SAY and the step counter is below MaxSteps, and a round other
\* than the first starts in no other way; after a SAY no round follows.
C28_ReplansWhenNoSayAndBelowMax ==
    [][\A t \in Turns :
          /\ PlanEnds(t) =>
                (turn'[t].pc = "render" <=>
                    ~HasSay(turn'[t].ai.plan) /\ turn[t].ai.round < MaxSteps)
          /\ turn'[t].pc = "render" /\ turn[t].pc # "render" =>
                PlanEnds(t) /\ turn'[t].ai.executed = turn'[t].ai.plan
          /\ HasEv(t, "say") => turn'[t].pc \notin {"render", "reviewPrompt", "planner"}
      ]_vars

\* A second round has started after a Plan without SAY.
C28_Witness ==
    \E t \in Turns :
        /\ turn[t].pc = "reviewPrompt" /\ turn[t].ai.round = 2
        /\ Ev("doEnd", 1) \in {Log(t)[j] : j \in 1..Len(Log(t))}

\* A Plan without SAY has ended in the last round and no round followed.
C28_WitnessAtMaximum ==
    \E t \in Turns :
        /\ turn[t].pc = "exhausted" /\ turn[t].ai.round = MaxSteps
        /\ turn[t].ai.executed = turn[t].ai.plan /\ Len(turn[t].ai.plan) > 0

\* The log of turn t from event j on holds no Command of the round of j.
NoLaterCommand(t, j) ==
    \A m \in (j + 1)..Len(Log(t)) :
        Log(t)[m].e \in CommandEvents => ~SameRound(t, j, m)

\* The turn of an unknown action is not aborted: run() does not reject, and
\* once it has returned the afterTurn hooks have run and, unless one of them
\* returned false, the state was saved.
TurnGoesOn(t) ==
    /\ turn[t].result # "threw"
    /\ turn[t].pc = "done" =>
          /\ HasEv(t, "save") \/ HasEv(t, "afterFalse")
          /\ Len(_afterTurn) > 0 => HasEv(t, "after") \/ HasEv(t, "afterFalse")

Failing(c) ==
    c.type = "DO" /\ (c.action \notin Actions \/ c.entities # "resolved")
FailsBeforeSay(plan) ==
    \E k \in 1..Len(UpToSay(plan)) : Failing(plan[k])

After(t, j) == {Log(t)[m].e : m \in (j + 1)..Len(Log(t))}

\* C31: after a Planner call that failed, the loop has reported
\* PlannerError, the Planner is not called again and no Command executes in
\* that turn; the turn goes on to its afterTurn hooks and, unless one of them
\* returns false, its state is saved.
C31_PlannerErrorEndsLoop ==
    \A t \in Turns : \A j \in 1..Len(Log(t)) :
        Log(t)[j].e = "plannerError" =>
            /\ turn[t].ai.report = "PlannerError"
            /\ After(t, j) \cap (PlannerEvents \cup CommandEvents
                                   \cup {"render", "reviewPrompt", "redirect"}) = {}
            /\ ~HasEv(t, "exhausted")
            /\ turn[t].result # "threw"
            /\ turn[t].pc = "done" => HasEv(t, "save") \/ HasEv(t, "afterFalse")

\* The first Planner call failed; nothing executed, the failure was reported
\* and the state saved.
C31_Witness ==
    \E t \in Turns :
        /\ Ev("plannerError", 1) \in {Log(t)[j] : j \in 1..Len(Log(t))}
        /\ turn[t].ai.planner = 1 /\ CountEv(t, CommandEvents) = 0
        /\ turn[t].msgs = 1
        /\ turn[t].pc = "done" /\ HasEv(t, "save")

\* The Plan of the scenario: a registered action, then a response.
ScenarioPlan == << Do("createWI", "resolved"), Say("done") >>

\* C32: in a turn whose only Plan is [DO action, SAY response] with a
\* registered action, once the loop has ended the action was invoked once,
\* with the entities of the Plan, and returned before the response was
\* sent, and the history holds the user's input and then the response.
C32_ScenarioDoSay ==
    \A t \in Turns :
        /\ LoopEnded(t) /\ turn[t].ai.round = 1
        /\ turn[t].ai.reviewed /\ turn[t].ai.plan = ScenarioPlan
        => /\ CountEv(t, {"do"}) = 1 /\ CountEv(t, {"doEnd"}) = 1
           /\ CountEv(t, {"say"}) = 1 /\ turn[t].msgs = 1
           /\ \E i, j, k \in 1..Len(Log(t)) :
                 /\ i < j /\ j < k
                 /\ Log(t)[i] = Ev("do", 1) /\ Log(t)[j] = Ev("doEnd", 1)
                 /\ Log(t)[k] = Ev("say", 2)
           /\ turn[t].ai.executed = ScenarioPlan
           /\ turn[t].ai.output = "createWI"
           /\ turn[t].ai.history =
                 << HistoryEntry("user", turn[t].activity.text),
                    HistoryEntry("assistant", << "done" >>) >>

\* The Planner returned the Plan of the scenario, reviewPlan left it as it
\* was, and the turn has ended.
C32_Witness ==
    \E t \in Turns :
        /\ turn[t].pc = "done" /\ turn[t].ai.round = 1
        /\ turn[t].ai.source = "planner" /\ turn[t].ai.plan = ScenarioPlan
        /\ Len(turn[t].ai.history) = 2

\* The conversation and user scopes of a turn state.
Persistent(state) == [state EXCEPT !.temp = 0]

\* The turns that have saved their state.
Savers == {t \in Turns : HasEv(t, "save")}

\* C33: turns of one key that run at the same time each work on the state
\* they loaded, untouched by the save of the other, and a save leaves in the
\* store, in both scopes, the state of the turn that saves, whatever another
\* turn stored before: the last save wins and nothing is merged.
C33_LastSaveWins ==
    [][\A t \in Turns :
          /\ HasEv(t, "load") /\ ~HasEv(t, "handlerEnd") /\ ~HasEv(t, "aiEnd") =>
                turn'[t].state = turn[t].loaded \/ turn'[t].state = Written(t)
          /\ turn[t].pc = "save" /\ turn'[t].pc # "save" =>
                (LoadedState(turn[t].key))' = Persistent(turn[t].state)
          /\ Savers # {} =>
                \E u \in Savers : LoadedState(turn[u].key) = Persistent(turn[u].state)
      ]_vars

\* Both turns loaded the empty state before either saved, both saved, and the
\* stored record is the state of the first turn: the update of the second
\* turn is lost.
C33_Witness ==
    /\ \A t \in 1..2 : /\ turn[t].pc = "done" /\ HasEv(t, "save")
                       /\ turn[t].loaded = EmptyState
                       /\ turn[t].key = DefaultKey
    /\ LoadedState(DefaultKey) = Persistent(Written(1))

\* A message turn that is being handled, has sent no message and whose timer
\* has not fired yet.
AwaitsTimeout(t) ==
    /\ turn[t].incoming.type = Message
    /\ turn[t].pc \notin {"idle", "done", "proactive", "unsettled"}
    /\ turn[t].msgs = 0 /\ turn[t].typing = 0

\* C35: every message turn that is being handled has its own typing timer
\* armed until it fires, the turn sends a message, or the turn ends: neither
\* the start nor the end of another turn takes it away.
C35_TimersIndependent ==
    \A t \in Turns : AwaitsTimeout(t) => t \in timeouts

\* C34: saveState is called at most once in a turn; a turn that has ended
\* without an error has saved exactly when a beforeTurn hook returned false,
\* or a route handler or the AI chain completed and no afterTurn hook returned
\* false; a turn that ended unhandled has called no afterTurn hook and has
\* not saved, so that the store holds what it held when the turn loaded.
Completed(t) == HasEv(t, "handlerEnd") \/ HasEv(t, "aiEnd")

C34_SavedOnceIffVetoedOrCompleted ==
    \A t \in Turns :
        /\ CountEv(t, {"save"}) <= 1
        /\ (turn[t].pc = "done" /\ turn[t].result \in {"true", "false"}) =>
               (HasEv(t, "save") <=>
                    \/ HasEv(t, "beforeFalse")
                    \/ Completed(t) /\ ~HasEv(t, "afterFalse"))
        /\ (turn[t].pc = "done" /\ turn[t].result = "false"
                /\ ~HasEv(t, "beforeFalse")) =>
               /\ ~Completed(t)
               /\ CountEv(t, {"after", "afterFalse", "save"}) = 0
               /\ LatestTurn(t) => LoadedState(turn[t].key) = turn[t].loaded

\* A turn that ended unhandled after its beforeTurn hooks, with afterTurn
\* hooks registered.
C34_Witness ==
    \E t \in Turns :
        /\ turn[t].pc = "done" /\ turn[t].result = "false"
        /\ HasEv(t, "before") /\ ~HasEv(t, "beforeFalse")
        /\ Len(_afterTurn) > 0

\* C36: the promise of run() always settles: no turn reaches the position in
\* which the promise of run() is pending while no callback is left that would
\* resolve or reject it, also when the adapter's continueConversationAsync
\* fails before it has called the turn logic.
C36_RunSettles ==
    \A t \in Turns : turn[t].pc # "unsettled"

\* C37: in a turn whose activity is not of type invoke no selector of the
\* invoke lane is evaluated and no handler of the invoke lane is called: the
\* handler dispatched, if any, is the one of the first matching route of the
\* default lane.
InvokeLaneHandlers == {_invokeRoutes[k].handler : k \in 1..Len(_invokeRoutes)}

C37_NonInvokeDefaultLaneOnly ==
    \A t \in Turns :
        (turn[t].pc # "idle" /\ turn[t].incoming.type # Invoke) =>
            /\ turn[t].pc # "invokeSel"
            /\ CountEv(t, {"invokeSel"}) = 0
            /\ turn[t].handler \notin InvokeLaneHandlers
            /\ \A k \in 1..Len(turn[t].log) :
                   turn[t].log[k].e \in {"handler", "handlerEnd", "handlerThrew"}
                       => turn[t].log[k].n \notin InvokeLaneHandlers
            /\ PastDispatch(t) =>
                   turn[t].handler = FirstMatch(_routes, turn[t].activity)

\* A message was handled by a route of the default lane that was registered
\* after a route of the invoke lane whose selector is true of the message.
C37_Witness ==
    \E t \in Turns :
        /\ turn[t].pc = "done" /\ turn[t].incoming.type = Message
        /\ Len(_invokeRoutes) > 0 /\ Len(_routes) > 0
        /\ Matches(_invokeRoutes[1].selector, turn[t].activity)
        /\ _invokeRoutes[1].handler < _routes[1].handler
        /\ turn[t].handler = _routes[1].handler
        /\ HasEv(t, "handlerEnd")

\* C38: the calls of the hooks of one list (beforeTurn or afterTurn) in a turn
\* are the hooks 1, 2, ... of the list in registration order, one returning
\* before the next is called, and a hook that returned false is the last hook
\* of its list called in the turn.
HookCalls(t, returnedTrue, returnedFalse) ==
    SelectSeq(turn[t].log, LAMBDA ev : ev.e \in {returnedTrue, returnedFalse})

ShortCircuits(calls, returnedFalse, handlers) ==
    /\ Len(calls) <= Len(handlers)
    /\ \A k \in 1..Len(calls) :
           /\ calls[k].n = k
           /\ calls[k].e = returnedFalse => k = Len(calls)

C38_HooksShortCircuit ==
    \A t \in Turns :
        /\ ShortCircuits(HookCalls(t, "before", "beforeFalse"), "beforeFalse",
                         _beforeTurn)
        /\ ShortCircuits(HookCalls(t, "after", "afterFalse"), "afterFalse",
                         _afterTurn)
        /\ turn[t].pc \in {"before", "after"} =>
               turn[t].i = 1 + Len(HookCalls(t, turn[t].pc,
                                             IF turn[t].pc = "before"
                                             THEN "beforeFalse" ELSE "afterFalse"))

\* The first of two beforeTurn hooks returned false and the turn has ended
\* without a call of the second.
C38_Witness ==
    \E t \in Turns :
        /\ turn[t].pc = "done"
        /\ Len(_beforeTurn) = 2
        /\ HookCalls(t, "before", "beforeFalse") = << Ev("beforeFalse", 1) >>

\* C39: the route of fetch or submit that runs for an invoke of its name
\* calls the handler and leaves exactly one invoke response in the turn: the
\* handler's own if it has added one, in which case the route sends nothing,
\* and otherwise the one the route builds from the result and sends with
\* status 200; the route that runs for any other event throws, has not called
\* the handler and has sent nothing.
InvokeResponses ==
    (IF api.responded THEN 1 ELSE 0) + (IF api.sent = NothingSent THEN 0 ELSE 1)

C39_OneInvokeResponse ==
    api.op = "route" =>
        IF Expected(api.event, InvokeNameOf(api.selector))
        THEN /\ api.outcome = "handled" /\ api.called
             /\ InvokeResponses = 1
             /\ api.responded => api.sent = NothingSent
             /\ ~api.responded =>
                    /\ api.sent.type = "invokeResponse" /\ api.sent.status = 200
                    /\ api.result = "string" =>
                           api.sent.body = TaskResponse("message", api.result)
                    /\ api.result = "TaskInfo" =>
                           api.sent.body = TaskResponse("continue", api.result)
        ELSE /\ api.outcome = "threw" /\ ~api.called
             /\ InvokeResponses = 0

\* The route of a fetch whose verb is a selector function has run for an
\* invoke of another name and has thrown.
C39_Witness ==
    /\ api.op = "route" /\ api.outcome = "threw"
    /\ api.selector = SelectorFunction(FETCH_INVOKE_NAME)
    /\ TypeIs(api.event, Invoke)
    /\ Has(api.event, "name") /\ api.event.full.name = SUBMIT_INVOKE_NAME

\* The handler of a submit route had added an invoke response and the route
\* has sent none.
C39_WitnessResponded ==
    /\ api.op = "route" /\ api.outcome = "handled"
    /\ InvokeNameOf(api.selector) = SUBMIT_INVOKE_NAME
    /\ api.responded /\ api.sent = NothingSent

\* C40: the step in which run() of a turn settles, on whatever path (normal
\* completion, veto of a beforeTurn hook, unhandled activity, or a thrown
\* error), leaves no timeout pending that the turn has armed.
C40_StoppedOnEveryExit ==
    [][\A t \in Turns :
          (turn[t].pc # "done" /\ turn'[t].pc = "done") => t \notin timeouts'
      ]_vars

====
